---- MODULE Spec2Model ----
(***************************************************************************)
(* Model of the 5G scheduler extender (extender_server.py), the inference *)
(* server (inference_server.py, feature_extractor.py, model_loader.py)    *)
(* and the offline trainer (train_model.py).                               *)
(*                                                                         *)
(* Numbers.  Python floats are modelled in fixed point:                    *)
(*   - ratios, loads and scores: integers in units of 1/Scale;             *)
(*   - CPU quantities: integers in units of 1/Scale core;                  *)
(*   - memory quantities: two limbs <<hi, lo>> = hi * LimbBase + lo bytes  *)
(*     (TLC integers are 32 bits wide, 1Ti is 2^40).                       *)
(* Strings the code parses are sequences of one-character strings.         *)
(***************************************************************************)
EXTENDS Integers, Sequences, FiniteSets, TLC

VARIABLES
    handler,              \* the operation that ran last
    request,              \* its input (request body and environment answers)
    response,             \* its HTTP response / return value
    model_file,           \* the artifact file MODEL_PATH points to
    model_loader,         \* ModelLoader fields: model, scaler, model_version, is_model_loaded
    prediction_requests,  \* Counter inference_predictions_total by status
    node_features,        \* predict's local list of feature vectors
    scores                \* predict's local: what model_loader.predict did

vars == <<handler, request, response, model_file, model_loader,
          prediction_requests, node_features, scores>>

----------------------------------------------------------------------------
(* Bounds of the model *)

MaxNodes == 2        \* longest node list in a request
MaxCalls == 2        \* /predict calls counted before the counter is capped

(* Fixed-point resolution *)
Scale == 1000 * 1000
LimbBase == 1024 * 1024

----------------------------------------------------------------------------
(* Generic helpers *)

Min(a, b) == IF a <= b THEN a ELSE b
Max(a, b) == IF a >= b THEN a ELSE b
Abs(a) == IF a >= 0 THEN a ELSE 0 - a

RECURSIVE SumSeq(_)
SumSeq(s) == IF s = <<>> THEN 0 ELSE Head(s) + SumSeq(Tail(s))

RECURSIVE Pow(_, _)
Pow(b, n) == IF n = 0 THEN 1 ELSE b * Pow(b, n - 1)

\* integer square root (floor) by bisection; x < 2^31 so the root is < 46341
RECURSIVE SqrtBetween(_, _, _)
SqrtBetween(x, lo, hi) ==
    IF hi - lo <= 1 THEN lo
    ELSE LET mid == (lo + hi) \div 2
         IN  IF mid * mid <= x THEN SqrtBetween(x, mid, hi) ELSE SqrtBetween(x, lo, mid)
Sqrt(x) == SqrtBetween(x, 0, 46341)

\* a * b / Scale for 0 <= a, b <= about 2000 * Scale, without leaving 32 bits:
\* b is split in thousands, floor(a*b/10^6) = floor((a*b1 + floor(a*b0/1000))/1000)
MulScale(a, b) ==
    LET b1 == b \div 1000
        b0 == b % 1000
        a1 == a \div 1000
        a0 == a % 1000
    IN  a1 * b1 + (a1 * b0 + a0 * b1 + (a0 * b0) \div 1000) \div 1000

\* sqrt(x / Scale) * Scale, i.e. the square root of a fixed-point number
SqrtScale(x) == (Sqrt(x * 1024) * 1000) \div 32

\* exp(-x / Scale) * Scale for x >= 0: e^-q by repeated multiplication with
\* e^-1, e^-r (0 <= r < 1) by its Taylor series to the 12th term
EInverse == 367879

RECURSIVE TaylorExpNeg(_, _, _, _)
TaylorExpNeg(r, k, term, acc) ==
    IF k > 12 \/ term = 0 THEN acc
    ELSE LET t == MulScale(term, r) \div k
         IN  TaylorExpNeg(r, k + 1, t, IF k % 2 = 1 THEN acc - t ELSE acc + t)

RECURSIVE TimesEInverse(_, _)
TimesEInverse(v, q) == IF q = 0 \/ v = 0 THEN v ELSE TimesEInverse(MulScale(v, EInverse), q - 1)

ExpNeg(x) ==
    TimesEInverse(Max(0, TaylorExpNeg(x % Scale, 1, Scale, Scale)), x \div Scale)

\* the sequences of length <= n over a set
RECURSIVE SeqsUpTo(_, _)
SeqsUpTo(S, n) ==
    IF n = 0 THEN {<<>>}
    ELSE LET shorter == SeqsUpTo(S, n - 1)
         IN  shorter \cup {Append(s, x) : s \in {t \in shorter : Len(t) = n - 1}, x \in S}

----------------------------------------------------------------------------
(* Strings as character sequences *)

Digits == {"0", "1", "2", "3", "4", "5", "6", "7", "8", "9"}

DigitVal(c) ==
    CASE c = "0" -> 0 [] c = "1" -> 1 [] c = "2" -> 2 [] c = "3" -> 3
      [] c = "4" -> 4 [] c = "5" -> 5 [] c = "6" -> 6 [] c = "7" -> 7
      [] c = "8" -> 8 [] c = "9" -> 9

\* dict.get on a key that is absent: the sentinel stands for "no such key"
Missing == <<"#missing">>

Get(v, default) == IF v = Missing THEN default ELSE v

RECURSIVE AllDigits(_)
AllDigits(s) == s = <<>> \/ (Head(s) \in Digits /\ AllDigits(Tail(s)))

RECURSIVE DigitsValue(_)
DigitsValue(s) ==
    IF s = <<>> THEN 0 ELSE DigitsValue(SubSeq(s, 1, Len(s) - 1)) * 10 + DigitVal(s[Len(s)])

\* position of the first "." of s, 0 when there is none
RECURSIVE DotAt(_, _)
DotAt(s, i) == IF i > Len(s) THEN 0 ELSE IF s[i] = "." THEN i ELSE DotAt(s, i + 1)

EndsWith(s, c) == Len(s) > 0 /\ s[Len(s)] = c

\* Python float(s) on the model's alphabet: digits with at most one ".", at
\* least one digit; anything else raises ValueError.  The value is returned
\* as mantissa m and number of fractional digits e (value = m / 10^e).
PyFloat(s) ==
    LET d    == DotAt(s, 1)
        ip   == IF d = 0 THEN s ELSE SubSeq(s, 1, d - 1)
        fp   == IF d = 0 THEN <<>> ELSE SubSeq(s, d + 1, Len(s))
    IN  IF AllDigits(ip) /\ AllDigits(fp) /\ Len(ip) + Len(fp) > 0
        THEN [exc |-> FALSE, m |-> DigitsValue(ip \o fp), e |-> Len(fp)]
        ELSE [exc |-> TRUE, m |-> 0, e |-> 0]

----------------------------------------------------------------------------
(* Memory quantities: two limbs, value = hi * LimbBase + lo bytes *)

MemNorm(hi, lo) == <<hi + (lo \div LimbBase), lo % LimbBase>>
MemZero == <<0, 0>>
MemAdd(a, b) == MemNorm(a[1] + b[1], a[2] + b[2])
MemMul(v, mult) == MemNorm(v * mult[1], v * mult[2])
MemGe(a, b) == a[1] > b[1] \/ (a[1] = b[1] /\ a[2] >= b[2])

----------------------------------------------------------------------------
(* extender_server.py: resource quantity parser *)

\* the parser if the suffix m were dropped without dividing by 1000
_parse_cpu_millis_as_cores(cpu_str) ==
    IF cpu_str = <<>> THEN [exc |-> FALSE, v |-> 0]
    ELSE LET f == PyFloat(IF EndsWith(cpu_str, "m")
                          THEN SubSeq(cpu_str, 1, Len(cpu_str) - 1) ELSE cpu_str)
         IN  [exc |-> f.exc, v |-> (f.m * Scale) \div Pow(10, f.e)]

\* _parse_cpu: cores in units of 1/Scale; exc when float() raises ValueError
_parse_cpu(cpu_str) ==
    IF cpu_str = <<>> THEN [exc |-> FALSE, v |-> 0]
    ELSE IF EndsWith(cpu_str, "m")
         THEN LET f == PyFloat(SubSeq(cpu_str, 1, Len(cpu_str) - 1))
              IN  [exc |-> f.exc, v |-> (f.m * Scale) \div (1000 * Pow(10, f.e))]
         ELSE LET f == PyFloat(cpu_str)
              IN  [exc |-> f.exc, v |-> (f.m * Scale) \div Pow(10, f.e)]

\* length of the longest prefix of digits: the regex group (\d+)
RECURSIVE LeadDigits(_, _)
LeadDigits(s, i) ==
    IF i <= Len(s) /\ s[i] \in Digits THEN LeadDigits(s, i + 1) ELSE i - 1

\* the regex group ([KMGT]?i?)? matched right after the digits
UnitAfter(s, n) ==
    LET k == IF n + 1 <= Len(s) /\ s[n + 1] \in {"K", "M", "G", "T"} THEN 1 ELSE 0
        i == IF n + k + 1 <= Len(s) /\ s[n + k + 1] = "i" THEN 1 ELSE 0
    IN  SubSeq(s, n + 1, n + k + i)

\* the table if the decimal suffixes were read as powers of 1024 too
multipliers_binary_only(unit) ==
    CASE unit \in {<<"K", "i">>, <<"K">>} -> <<0, 1024>>
      [] unit \in {<<"M", "i">>, <<"M">>} -> <<1, 0>>
      [] unit \in {<<"G", "i">>, <<"G">>} -> <<1024, 0>>
      [] unit \in {<<"T", "i">>, <<"T">>} -> <<1024 * 1024, 0>>
      [] OTHER                             -> <<0, 1>>

\* the multipliers dict with .get(unit, 1)
multipliers(unit) ==
    CASE unit = <<"K", "i">> -> <<0, 1024>>
      [] unit = <<"M", "i">> -> <<1, 0>>
      [] unit = <<"G", "i">> -> <<1024, 0>>
      [] unit = <<"T", "i">> -> <<1024 * 1024, 0>>
      [] unit = <<"K">>      -> <<0, 1000>>
      [] unit = <<"M">>      -> <<0, 1000 * 1000>>
      [] unit = <<"G">>      -> <<953, 707072>>
      [] unit = <<"T">>      -> <<953674, 331776>>
      [] OTHER               -> <<0, 1>>

\* _parse_memory: bytes as limbs; it never raises on a string
_parse_memory(memory_str) ==
    IF memory_str = <<>> THEN MemZero
    ELSE LET n == LeadDigits(memory_str, 1)
         IN  IF n = 0 THEN MemZero
             ELSE MemMul(DigitsValue(SubSeq(memory_str, 1, n)),
                         multipliers(UnitAfter(memory_str, n)))

----------------------------------------------------------------------------
(* extender_server.py: admission filter *)

\* sum of the containers' requests; exc when a CPU quantity does not parse
RECURSIVE SumRequests(_)
SumRequests(containers) ==
    IF containers = <<>> THEN [exc |-> FALSE, cpu |-> 0, mem |-> MemZero]
    ELSE LET c    == Head(containers)
             rest == SumRequests(Tail(containers))
             cpu  == IF c.cpu = Missing THEN [exc |-> FALSE, v |-> 0] ELSE _parse_cpu(c.cpu)
             mem  == IF c.memory = Missing THEN MemZero ELSE _parse_memory(c.memory)
         IN  [exc |-> cpu.exc \/ rest.exc,
              cpu |-> cpu.v + rest.cpu,
              mem |-> MemAdd(mem, rest.mem)]

\* the capacity test with the memory comparison left out
_has_sufficient_resources_cpu_only(node, pod) ==
    LET total == SumRequests(pod.containers)
        cpu_available == _parse_cpu(Get(node.alloc_cpu, <<"0">>))
    IN  [exc |-> total.exc \/ cpu_available.exc,
         ok  |-> cpu_available.v >= total.cpu]

_has_sufficient_resources(node, pod) ==
    LET total == SumRequests(pod.containers)
        cpu_available == _parse_cpu(Get(node.alloc_cpu, <<"0">>))
        memory_available == _parse_memory(Get(node.alloc_memory, <<"0">>))
    IN  [exc |-> total.exc \/ cpu_available.exc,
         ok  |-> cpu_available.v >= total.cpu /\ MemGe(memory_available, total.mem)]

RECURSIVE filter_nodes(_, _)
filter_nodes(pod, nodes) ==
    IF nodes = <<>> THEN [exc |-> FALSE, items |-> <<>>, failedNodes |-> <<>>]
    ELSE LET node == Head(nodes)
             r    == _has_sufficient_resources(node, pod)
             rest == filter_nodes(pod, Tail(nodes))
         IN  [exc |-> r.exc \/ rest.exc,
              items |-> IF r.ok THEN <<node>> \o rest.items ELSE rest.items,
              failedNodes |->
                  IF r.ok THEN rest.failedNodes
                  ELSE <<[name |-> node.name, reason |-> "InsufficientResources"]>>
                       \o rest.failedNodes]

----------------------------------------------------------------------------
(* Requests the scheduler sends to the extender *)

Str_500m  == <<"5", "0", "0", "m">>
Str_1     == <<"1">>
Str_2     == <<"2">>
Str_2p5   == <<"2", ".", "5">>
Str_4     == <<"4">>
Str_bad   == <<"x">>
Str_128Mi == <<"1", "2", "8", "M", "i">>
Str_100M  == <<"1", "0", "0", "M">>
Str_1Gi   == <<"1", "G", "i">>
Str_2Gi   == <<"2", "G", "i">>
Str_1Ti   == <<"1", "T", "i">>

KubePods ==
    { [name |-> "pod-upf", pod_type |-> "UPF",
       containers |-> <<[cpu |-> Str_500m, memory |-> Str_128Mi]>>],
      [name |-> "pod-two", pod_type |-> "SMF",
       containers |-> <<[cpu |-> Str_500m, memory |-> Str_128Mi],
                        [cpu |-> Str_1, memory |-> Missing]>>],
      [name |-> "pod-bad", pod_type |-> "absent",
       containers |-> <<[cpu |-> Str_bad, memory |-> Str_128Mi]>>],
      \* the pod key is absent from the body: data.get('pod', {})
      [name |-> "absent", pod_type |-> "absent", containers |-> <<>>] }

KubeNodes ==
    { [name |-> "node-a", alloc_cpu |-> Str_2p5, alloc_memory |-> Str_1Gi,
       cap_cpu |-> Str_4, cap_memory |-> Str_2Gi],
      [name |-> "node-b", alloc_cpu |-> Str_1, alloc_memory |-> Str_100M,
       cap_cpu |-> Str_2, cap_memory |-> Str_1Gi],
      [name |-> "node-c", alloc_cpu |-> Str_2, alloc_memory |-> Missing,
       cap_cpu |-> Str_2, cap_memory |-> Str_1Ti],
      [name |-> "node-d", alloc_cpu |-> Str_bad, alloc_memory |-> Str_1Gi,
       cap_cpu |-> Str_4, cap_memory |-> Str_1Gi] }

\* request.get_json(): no JSON body, a body without 'nodes' (nodes reads as
\* the default []), or pod and nodes; an absent 'containers' reads as []
KubeBodies ==
    { [json |-> FALSE, pod |-> p, has_nodes |-> FALSE, nodes |-> <<>>] :
          p \in {q \in KubePods : q.name = "absent"} }
    \cup { [json |-> TRUE, pod |-> p, has_nodes |-> FALSE, nodes |-> <<>>] : p \in KubePods }
    \cup { [json |-> TRUE, pod |-> p, has_nodes |-> TRUE, nodes |-> ns] :
               p \in KubePods, ns \in SeqsUpTo(KubeNodes, MaxNodes) }

NoRequest == [json |-> FALSE]
NoResponse == [status |-> 0]
NoFeatures == <<>>
NotCalled ==
    [called |-> FALSE, exc |-> FALSE, scaled |-> FALSE, scores |-> <<>>, matrix |-> <<>>]

----------------------------------------------------------------------------
(* extender_server.py: POST /filter *)

filter_response(data) ==
    IF ~data.json
    THEN \* data is None: data.get raises, the handler answers 500
         [status |-> 500,
          body |-> [items |-> <<>>, failedNodes |-> <<>>, error |-> "exception"]]
    ELSE LET result == filter_nodes(data.pod, data.nodes)
         IN  IF result.exc
             THEN [status |-> 500,
                   body |-> [items |-> <<>>, failedNodes |-> <<>>, error |-> "exception"]]
             ELSE [status |-> 200,
                   body |-> [items |-> result.items,
                             failedNodes |-> result.failedNodes,
                             error |-> "null"]]

filter ==
    \E data \in KubeBodies :
        /\ handler = "none"
        /\ handler' = "filter"
        /\ request' = data
        /\ response' = filter_response(data)
        /\ node_features' = NoFeatures
        /\ scores' = NotCalled
        /\ UNCHANGED <<model_file, model_loader, prediction_requests>>

----------------------------------------------------------------------------
(* extender_server.py: POST /prioritize *)

\* the inline CPU conversion of _prepare_prediction_request (no empty-string case)
InlineCpu(cpu_str) ==
    IF EndsWith(cpu_str, "m")
    THEN LET f == PyFloat(SubSeq(cpu_str, 1, Len(cpu_str) - 1))
         IN  [exc |-> f.exc, v |-> (f.m * Scale) \div (1000 * Pow(10, f.e))]
    ELSE LET f == PyFloat(cpu_str)
         IN  [exc |-> f.exc, v |-> (f.m * Scale) \div Pow(10, f.e)]

RECURSIVE PodRequests(_)
PodRequests(containers) ==
    IF containers = <<>> THEN [exc |-> FALSE, cpu |-> 0, mem |-> MemZero]
    ELSE LET c    == Head(containers)
             rest == PodRequests(Tail(containers))
             cpu  == IF c.cpu = Missing THEN [exc |-> FALSE, v |-> 0] ELSE InlineCpu(c.cpu)
             mem  == IF c.memory = Missing THEN MemZero ELSE _parse_memory(c.memory)
         IN  [exc |-> cpu.exc \/ rest.exc,
              cpu |-> cpu.v + rest.cpu,
              mem |-> MemAdd(mem, rest.mem)]

\* Python None where a number is optional
None == 0 - 1

\* _get_network_latency: milliseconds, or "None" when the query fails or is empty
_get_network_latency(prometheus, node_name) ==
    IF prometheus.up /\ node_name \in DOMAIN prometheus.rtt_ms
    THEN prometheus.rtt_ms[node_name]
    ELSE None

CandidateNode(node, prometheus) ==
    LET cpu_capacity  == _parse_cpu(Get(node.cap_cpu, <<"0">>))
        cpu_available == _parse_cpu(Get(node.alloc_cpu, <<"0">>))
    IN  [exc |-> cpu_capacity.exc \/ cpu_available.exc,
         node |-> [name |-> node.name,
                   cpu_available |-> cpu_available.v,
                   memory_available |-> _parse_memory(Get(node.alloc_memory, <<"0">>)),
                   cpu_capacity |-> cpu_capacity.v,
                   memory_capacity |-> _parse_memory(Get(node.cap_memory, <<"0">>)),
                   network_latency |-> _get_network_latency(prometheus, node.name)]]

_prepare_prediction_request(pod, nodes, prometheus) ==
    LET req   == PodRequests(pod.containers)
        cands == [i \in 1..Len(nodes) |-> CandidateNode(nodes[i], prometheus)]
    IN  [exc |-> req.exc \/ \E i \in 1..Len(nodes) : cands[i].exc,
         pod |-> [name |-> pod.name, cpu_request |-> req.cpu,
                  memory_request |-> req.mem, pod_type |-> pod.pod_type],
         candidate_nodes |-> [i \in 1..Len(nodes) |-> cands[i].node]]

_default_prioritization(nodes) ==
    [hostPriorities |-> [i \in 1..Len(nodes) |-> [host |-> nodes[i].name, score |-> 5]],
     error |-> "null"]

\* int(x * 10): Python int() truncates toward zero
IntTimes10(x) == (x * 10) \div Scale

\* round(x * 10): Python 3 round() goes to the nearest integer, ties to even
RoundTimes10(x) ==
    LET q == (x * 10) \div Scale
        r == (x * 10) % Scale
    IN  IF 2 * r > Scale THEN q + 1
        ELSE IF 2 * r < Scale THEN q
        ELSE q + (q % 2)

\* the lookup if a node without a score were given the middle score
ScoreOf_neutral(node_scores, node_name) ==
    IF node_name \in DOMAIN node_scores THEN node_scores[node_name] ELSE Scale \div 2

\* prediction['node_scores'].get(node_name, 0)
ScoreOf(node_scores, node_name) ==
    IF node_name \in DOMAIN node_scores THEN node_scores[node_name] ELSE 0

prioritize_nodes(pod, nodes, prometheus, backend) ==
    LET prediction_request == _prepare_prediction_request(pod, nodes, prometheus)
    IN  IF prediction_request.exc
        THEN _default_prioritization(nodes)          \* except Exception
        ELSE IF backend.kind \in {"unreachable", "http_error"}
        THEN _default_prioritization(nodes)          \* except RequestException
        ELSE IF backend.kind = "bad_json"
        THEN _default_prioritization(nodes)          \* ValueError / KeyError
        ELSE [hostPriorities |->
                  [i \in 1..Len(nodes) |->
                      [host |-> nodes[i].name,
                       score |-> IntTimes10(ScoreOf(backend.node_scores, nodes[i].name))]],
              error |-> "null"]

prioritize_response(data, prometheus, backend) ==
    IF ~data.json
    THEN [status |-> 500, body |-> [hostPriorities |-> <<>>, error |-> "exception"]]
    ELSE [status |-> 200, body |-> prioritize_nodes(data.pod, data.nodes, prometheus, backend)]

\* what Prometheus answers to the latency query
PrometheusAnswers ==
    { [up |-> FALSE, rtt_ms |-> [n \in {} |-> 0]],
      [up |-> TRUE,  rtt_ms |-> [n \in {"node-a"} |-> 20]] }

\* what the inference server answers to POST /predict
NodeScoreMaps ==
    { [n \in {"node-a", "node-b", "node-c", "node-d"} |->
          CASE n = "node-a" -> 570000 [] n = "node-b" -> 250000
            [] n = "node-c" -> Scale [] OTHER -> 0],
      [n \in {"node-a", "node-b"} |-> IF n = "node-a" THEN 899900 ELSE 350000],
      [n \in {"node-b"} |-> 600000] }

BackendAnswers ==
    { [kind |-> k, node_scores |-> [n \in {} |-> 0]] :
          k \in {"unreachable", "http_error", "bad_json"} }
    \cup { [kind |-> "ok", node_scores |-> m] : m \in NodeScoreMaps }

prioritize ==
    \E data \in KubeBodies, prometheus \in PrometheusAnswers, backend \in BackendAnswers :
        /\ handler = "none"
        /\ handler' = "prioritize"
        /\ request' = [json |-> data.json, pod |-> data.pod, has_nodes |-> data.has_nodes,
                       nodes |-> data.nodes, prometheus |-> prometheus, backend |-> backend]
        /\ response' = prioritize_response(data, prometheus, backend)
        /\ node_features' = NoFeatures
        /\ scores' = NotCalled
        /\ UNCHANGED <<model_file, model_loader, prediction_requests>>

----------------------------------------------------------------------------
(* feature_extractor.py *)

Half == Scale \div 2

\* available / capacity if capacity > 0 else 0.0
Ratio(available, capacity) ==
    IF capacity > 0 THEN (available * Scale) \div capacity ELSE 0

\* _query_prometheus through _get_node_cpu_load / _get_node_memory_load:
\* float(result) if result else 0.0, and 0.0 on any exception
\* the CPU load with the neutral 0.5 for a query that failed
_get_node_cpu_load_neutral(telemetry, node_name) ==
    IF telemetry.up /\ node_name \in DOMAIN telemetry.cpu THEN telemetry.cpu[node_name] ELSE Half

_get_node_cpu_load(telemetry, node_name) ==
    IF telemetry.up /\ node_name \in DOMAIN telemetry.cpu THEN telemetry.cpu[node_name] ELSE 0

_get_node_memory_load(telemetry, node_name) ==
    IF telemetry.up /\ node_name \in DOMAIN telemetry.mem THEN telemetry.mem[node_name] ELSE 0

\* _get_node_pod_density: len(pods.items) / 100.0 capped at 1.0, 0.0 on failure
_get_node_pod_density(inventory, node_name) ==
    IF inventory.up /\ node_name \in DOMAIN inventory.pods
    THEN Min(Scale, (inventory.pods[node_name] * Scale) \div 100)
    ELSE 0

\* _calculate_label_compatibility: pod labels are records
\* [selector, key, value], selector = the key has the prefix node-selector/
_calculate_label_compatibility(node_labels, pod_labels) ==
    LET sel     == {l \in pod_labels : l.selector}
        matches == {l \in sel : l.key \in DOMAIN node_labels /\ node_labels[l.key] = l.value}
    IN  IF pod_labels = {} THEN Half
        ELSE IF Cardinality(sel) > 0
             THEN (Cardinality(matches) * Scale) \div Cardinality(sel)
             ELSE Half

_get_pod_type_score(pod_type) ==
    CASE pod_type = "UPF" -> 900000
      [] pod_type = "SMF" -> 700000
      [] pod_type = "CU"  -> 600000
      [] pod_type = "DU"  -> 800000
      [] OTHER            -> Half

\* _count_same_type_pods; pod_type "None" is Python's None
RECURSIVE CountSame(_, _, _)
CountSame(node_name, pod_type, existing_pods) ==
    IF existing_pods = <<>> THEN 0
    ELSE (IF Head(existing_pods).node = node_name /\ Head(existing_pods).type = pod_type
          THEN 1 ELSE 0) + CountSame(node_name, pod_type, Tail(existing_pods))

_count_same_type_pods(node_name, pod_type, existing_pods) ==
    IF pod_type = "None" \/ existing_pods = <<>> THEN 0
    ELSE CountSame(node_name, pod_type, existing_pods)

\* population standard deviation (np.std, and the hand-written mean /
\* variance / sqrt of the heuristic)
PopStd(xs) ==
    LET n   == Len(xs)
        avg == SumSeq(xs) \div n
        sq  == [i \in 1..n |-> MulScale(Abs(xs[i] - avg), Abs(xs[i] - avg))]
    IN  SqrtScale(SumSeq(sq) \div n)

k_cpu == 25
k_mem == 25

\* the blend with the decay turned into a growth
BalanceOfStd_growing(cpu_std_future, mem_std_future) ==
    LET cpu_balance_score == Scale - ExpNeg(k_cpu * cpu_std_future)
        mem_balance_score == Scale - ExpNeg(k_mem * mem_std_future)
    IN  Max(0, Min(Scale, cpu_balance_score \div 2 + mem_balance_score \div 2))

\* exp(-k * std) if std >= 0 else 0.0, then the 50/50 blend clamped to [0,1]
BalanceOfStd(cpu_std_future, mem_std_future) ==
    LET cpu_balance_score == IF cpu_std_future >= 0 THEN ExpNeg(k_cpu * cpu_std_future) ELSE 0
        mem_balance_score == IF mem_std_future >= 0 THEN ExpNeg(k_mem * mem_std_future) ELSE 0
    IN  Max(0, Min(Scale, cpu_balance_score \div 2 + mem_balance_score \div 2))

\* the projection without its cap at 1.0
FutureLoad_unclamped(load, pod_request, capacity) ==
    IF capacity > 0 THEN load + (pod_request * Scale) \div capacity ELSE load

\* the projected load of the node the pod would be placed on
FutureLoad(load, pod_request, capacity) ==
    IF capacity > 0 THEN Min(Scale, load + (pod_request * Scale) \div capacity) ELSE load

\* the CPU loads with the projection put on the head of the list
FutureCpuLoads_head(node, pod, all_nodes, telemetry) ==
    [i \in 1..Len(all_nodes) |->
        IF i = 1
        THEN FutureLoad(_get_node_cpu_load(telemetry, node.name),
                        pod.cpu_request, node.cpu_capacity)
        ELSE _get_node_cpu_load(telemetry, all_nodes[i].name)]

FutureCpuLoads(node, pod, all_nodes, telemetry) ==
    [i \in 1..Len(all_nodes) |->
        IF all_nodes[i].name = node.name
        THEN FutureLoad(_get_node_cpu_load(telemetry, node.name),
                        pod.cpu_request, node.cpu_capacity)
        ELSE _get_node_cpu_load(telemetry, all_nodes[i].name)]

FutureMemLoads(node, pod, all_nodes, telemetry) ==
    [i \in 1..Len(all_nodes) |->
        IF all_nodes[i].name = node.name
        THEN FutureLoad(_get_node_memory_load(telemetry, node.name),
                        pod.memory_request, node.memory_capacity)
        ELSE _get_node_memory_load(telemetry, all_nodes[i].name)]

\* the balance_score feature: neutral 0.5 unless there are at least 2 nodes
FeatureBalance(node, pod, all_nodes, telemetry) ==
    IF Len(all_nodes) > 1
    THEN BalanceOfStd(PopStd(FutureCpuLoads(node, pod, all_nodes, telemetry)),
                      PopStd(FutureMemLoads(node, pod, all_nodes, telemetry)))
    ELSE Half

\* the feature vector with the latency appended after the two loads
extract_node_features_swapped(node, pod, existing_pods, all_nodes, env) ==
    LET cpu_load    == _get_node_cpu_load(env.telemetry, node.name)
        memory_load == _get_node_memory_load(env.telemetry, node.name)
    IN  << Ratio(node.cpu_available, node.cpu_capacity),
           Ratio(node.memory_available, node.memory_capacity),
           cpu_load,
           memory_load,
           IF node.network_latency # None
               THEN Min(Scale, (node.network_latency * Scale) \div 100) ELSE Half,
           _get_node_pod_density(env.inventory, node.name),
           FeatureBalance(node, pod, all_nodes, env.telemetry),
           Max(0, (cpu_load + memory_load) \div 2 - 700000),
           _calculate_label_compatibility(node.labels, pod.labels),
           _get_pod_type_score(pod.pod_type),
           (_count_same_type_pods(node.name, pod.pod_type, existing_pods) * Scale) \div 10 >>

extract_node_features(node, pod, existing_pods, all_nodes, env) ==
    LET cpu_load    == _get_node_cpu_load(env.telemetry, node.name)
        memory_load == _get_node_memory_load(env.telemetry, node.name)
    IN  << Ratio(node.cpu_available, node.cpu_capacity),
           Ratio(node.memory_available, node.memory_capacity),
           IF node.network_latency # None
               THEN Min(Scale, (node.network_latency * Scale) \div 100) ELSE Half,
           cpu_load,
           memory_load,
           _get_node_pod_density(env.inventory, node.name),
           FeatureBalance(node, pod, all_nodes, env.telemetry),
           Max(0, (cpu_load + memory_load) \div 2 - 700000),
           _calculate_label_compatibility(node.labels, pod.labels),
           _get_pod_type_score(pod.pod_type),
           (_count_same_type_pods(node.name, pod.pod_type, existing_pods) * Scale) \div 10 >>

get_feature_names ==
    << "cpu_available_ratio", "memory_available_ratio", "network_latency_normalized",
       "cpu_load_avg", "memory_load_avg", "pod_density", "balance_score",
       "overload_penalty", "label_compatibility", "pod_type_score",
       "same_type_pods_count" >>

----------------------------------------------------------------------------
(* model_loader.py: StubModel *)

\* the CPU zone sub-score: 1.0 in [0.30, 0.60], 0.7..1.0 below, decaying above
CpuUsageScore(cpu_load) ==
    IF 300000 <= cpu_load /\ cpu_load <= 600000 THEN Scale
    ELSE IF cpu_load < 300000
         THEN 700000 + MulScale((cpu_load * 10) \div 3, 300000)
         ELSE Max(0, Scale - ((cpu_load - 600000) * 25) \div 10)

\* (1.0 - latency) ** 1.5
LatencyScore(latency) ==
    LET y == Scale - latency
    IN  MulScale(y, SqrtScale(y))

Weighted(x, percent) == (x * percent) \div 100

\* the fallback balance of a short feature row (fewer than 7 features)
StubFallbackBalance(f) ==
    IF Len(f) >= 5
    THEN LET cpu_deviation == Abs(f[4] - Half)
             mem_deviation == Abs(f[5] - Half)
             cpu_balance == IF cpu_deviation > 0 THEN ExpNeg(25 * cpu_deviation) ELSE Scale
             mem_balance == IF mem_deviation > 0 THEN ExpNeg(25 * mem_deviation) ELSE Scale
         IN  Weighted(Max(0, Min(Scale, cpu_balance \div 2 + mem_balance \div 2)), 60)
    ELSE 0

\* the row score with the balance weight of 45% the stub had before
StubRowScore_old_weights(f) ==
    IF Len(f) < 2 THEN Half
    ELSE LET score ==
                 (IF Len(f) >= 4 THEN Weighted(CpuUsageScore(f[4]), 15)
                                 ELSE Weighted(f[1], 15))
               + (IF Len(f) >= 3 THEN Weighted(LatencyScore(f[3]), 15)
                                 ELSE Weighted(Scale - Half, 15))
               + (IF Len(f) >= 5 THEN Weighted(Scale - f[5], 8)
                                 ELSE Weighted(f[2], 8))
               + Weighted(f[1], 1)
               + Weighted(f[2], 1)
               + (IF Len(f) >= 7 THEN Weighted(f[7], 45) ELSE StubFallbackBalance(f))
         IN  Max(0, Min(Scale, score))

\* the score StubModel.predict gives one row; TLA+ sequences start at 1, so
\* node_features[k] of the code is f[k + 1]
StubRowScore(f) ==
    IF Len(f) < 2 THEN Half
    ELSE LET cpu_ratio    == f[1]
             memory_ratio == f[2]
             score ==
                 (IF Len(f) >= 4 THEN Weighted(CpuUsageScore(f[4]), 15)
                                 ELSE Weighted(cpu_ratio, 15))
               + (IF Len(f) >= 3 THEN Weighted(LatencyScore(f[3]), 15)
                                 ELSE Weighted(Scale - Half, 15))
               + (IF Len(f) >= 5 THEN Weighted(Scale - f[5], 8)
                                 ELSE Weighted(memory_ratio, 8))
               + Weighted(cpu_ratio, 1)
               + Weighted(memory_ratio, 1)
               + (IF Len(f) >= 7 THEN Weighted(f[7], 60) ELSE StubFallbackBalance(f))
         IN  Max(0, Min(Scale, score))

\* np.array([]) has shape (0,): it is reshaped to one row without features
StubModel_predict(features) ==
    IF features = <<>> THEN <<Half>>
    ELSE [i \in 1..Len(features) |-> StubRowScore(features[i])]

----------------------------------------------------------------------------
(* model_loader.py: ModelLoader *)

NoneObj   == [kind |-> "None", n_features |-> 0, version |-> ""]
StubModel == [kind |-> "stub", n_features |-> 0, version |-> "stub-v1.0"]

\* ModelLoader.__init__
ModelLoader_init ==
    [constructed |-> TRUE, model |-> NoneObj, scaler |-> NoneObj,
     model_version |-> "stub-v1.0", is_model_loaded |-> FALSE]

NotConstructed ==
    [constructed |-> FALSE, model |-> NoneObj, scaler |-> NoneObj,
     model_version |-> "", is_model_loaded |-> FALSE]

InstallStub(self) == [self EXCEPT !.model = StubModel, !.is_model_loaded = TRUE]

\* load_model on a freshly constructed loader, by the state of the file
load_model(self, file) ==
    CASE file.state = "missing" -> InstallStub(self)
      [] file.state = "corrupt" -> InstallStub(self)       \* pickle.load raises
      [] file.state = "wrapper" ->
            [self EXCEPT !.model = file.model,            \* loaded_data.get('model')
                         !.scaler = file.scaler,
                         !.model_version = IF file.version = "" THEN "1.0.0" ELSE file.version,
                         !.is_model_loaded = TRUE]
      [] file.state = "raw" ->
            [self EXCEPT !.model = file.model,
                         !.model_version = IF file.model.version # ""
                                           THEN file.model.version ELSE self.model_version,
                         !.is_model_loaded = TRUE]

is_loaded(self) == self.is_model_loaded /\ self.model # NoneObj

Width(features) == IF features = <<>> THEN 0 ELSE Len(features[1])

\* scaler.transform raises on a matrix of another width (or an empty one)
TransformRaises(scaler, features) ==
    features = <<>> \/ Width(features) # scaler.n_features

\* what a trained model returns for the matrix, by the outcome the call draws
TrainedScores(features, outcome) ==
    [i \in 1..Len(features) |->
        IF outcome = "ascending" THEN i * 200000 ELSE 1200000]

\* model.predict / model.predict_proba of a trained model raises
TrainedRaises(model, features, outcome) ==
    \/ outcome = "raises"
    \/ features = <<>>
    \/ Width(features) # model.n_features

\* StandardScaler.transform: (x - mean_) / scale_, column by column (the
\* scalers of the model take one mean and one scale for all columns)
ScalerTransform(scaler, features) ==
    [i \in 1..Len(features) |->
        [j \in 1..Len(features[i]) |->
            ((features[i][j] - scaler.mean) * 1000) \div (scaler.scale \div 1000)]]

\* features_array as the model receives it: scaled when a scaler is present
\* and its transform did not raise
FeaturesArray(self, features) ==
    IF self.scaler # NoneObj /\ ~TransformRaises(self.scaler, features)
    THEN ScalerTransform(self.scaler, features)
    ELSE features

\* the call as it would be if a failing model were replaced by the stub for good
ModelLoader_predict_keeps_stub(self, features, outcome) ==
    IF ~is_loaded(self)
    THEN [called |-> TRUE, exc |-> TRUE, scaled |-> FALSE, scores |-> <<>>,
          matrix |-> <<>>, self |-> self]
    ELSE LET scaled == self.scaler # NoneObj /\ ~TransformRaises(self.scaler, features)
             features_array == FeaturesArray(self, features)
         IN  IF self.model.kind \in {"stub", "opaque"}
             THEN [called |-> TRUE, exc |-> FALSE, scaled |-> scaled,
                   scores |-> StubModel_predict(features_array),
                   matrix |-> features_array, self |-> self]
             ELSE IF TrainedRaises(self.model, features_array, outcome)
                  THEN [called |-> TRUE, exc |-> TRUE, scaled |-> scaled, scores |-> <<>>,
                        matrix |-> features_array,
                        self |-> [self EXCEPT !.model = StubModel]]
                  ELSE [called |-> TRUE, exc |-> FALSE, scaled |-> scaled,
                        scores |-> TrainedScores(features_array, outcome),
                        matrix |-> features_array, self |-> self]

\* the call as it would be if a transform failure were left to propagate
ModelLoader_predict_transform_fails(self, features, outcome) ==
    IF ~is_loaded(self)
    THEN [called |-> TRUE, exc |-> TRUE, scaled |-> FALSE, scores |-> <<>>,
          matrix |-> <<>>, self |-> self]
    ELSE LET scaled == self.scaler # NoneObj /\ ~TransformRaises(self.scaler, features)
             features_array == FeaturesArray(self, features)
         IN  IF self.scaler # NoneObj /\ ~scaled
             THEN [called |-> TRUE, exc |-> TRUE, scaled |-> FALSE, scores |-> <<>>,
                   matrix |-> <<>>, self |-> self]
             ELSE IF self.model.kind \in {"stub", "opaque"}
             THEN [called |-> TRUE, exc |-> FALSE, scaled |-> scaled,
                   scores |-> StubModel_predict(features_array),
                   matrix |-> features_array, self |-> self]
             ELSE IF TrainedRaises(self.model, features_array, outcome)
                  THEN [called |-> TRUE, exc |-> TRUE, scaled |-> scaled, scores |-> <<>>,
                        matrix |-> features_array, self |-> self]
                  ELSE [called |-> TRUE, exc |-> FALSE, scaled |-> scaled,
                        scores |-> TrainedScores(features_array, outcome),
                        matrix |-> features_array, self |-> self]

\* ModelLoader.predict: what the call did, the matrix the model was given and
\* the loader's fields after it (the method assigns to no attribute of self)
ModelLoader_predict(self, features, outcome) ==
    IF ~is_loaded(self)
    THEN [called |-> TRUE, exc |-> TRUE, scaled |-> FALSE, scores |-> <<>>,
          matrix |-> <<>>, self |-> self]
    ELSE LET scaled == self.scaler # NoneObj /\ ~TransformRaises(self.scaler, features)
             features_array == FeaturesArray(self, features)
         IN  IF self.model.kind \in {"stub", "opaque"}
             THEN \* StubModel().predict: the model is the stub or has no predict method
                  [called |-> TRUE, exc |-> FALSE, scaled |-> scaled,
                   scores |-> StubModel_predict(features_array),
                   matrix |-> features_array, self |-> self]
             ELSE \* hasattr predict (regressor) or predict_proba (classifier)
                  IF TrainedRaises(self.model, features_array, outcome)
                  THEN [called |-> TRUE, exc |-> TRUE, scaled |-> scaled, scores |-> <<>>,
                        matrix |-> features_array, self |-> self]
                  ELSE [called |-> TRUE, exc |-> FALSE, scaled |-> scaled,
                        scores |-> TrainedScores(features_array, outcome),
                        matrix |-> features_array, self |-> self]

\* the handler's view of the call: everything but the loader
CallOutcome(res) ==
    [called |-> res.called, exc |-> res.exc, scaled |-> res.scaled, scores |-> res.scores,
     matrix |-> res.matrix]

----------------------------------------------------------------------------
(* inference_server.py: the heuristic *)

\* the balance term of _default_heuristic: with one candidate both standard
\* deviations are 0.0
HeuristicBalance(node, pod, candidate_nodes, telemetry) ==
    IF Len(candidate_nodes) > 1
    THEN BalanceOfStd(PopStd(FutureCpuLoads(node, pod, candidate_nodes, telemetry)),
                      PopStd(FutureMemLoads(node, pod, candidate_nodes, telemetry)))
    ELSE BalanceOfStd(0, 0)

HeuristicScore(node, pod, candidate_nodes, telemetry) ==
      Weighted(CpuUsageScore(_get_node_cpu_load(telemetry, node.name)), 15)
    + (IF node.network_latency # None
       THEN Weighted(LatencyScore(Min(Scale, (node.network_latency * Scale) \div 100)), 15)
       ELSE 0)
    + Weighted(Scale - _get_node_memory_load(telemetry, node.name), 8)
    + Weighted(Ratio(node.cpu_available, node.cpu_capacity), 1)
    + Weighted(Ratio(node.memory_available, node.memory_capacity), 1)
    + Weighted(HeuristicBalance(node, pod, candidate_nodes, telemetry), 60)

\* dict(zip(names, values)): a function on the names, the shorter list decides
ZipDict(names, values) ==
    LET k == Min(Len(names), Len(values))
    IN  [n \in {names[i] : i \in 1..k} |->
            values[CHOOSE i \in 1..k : names[i] = n /\ \A j \in 1..k : names[j] = n => j <= i]]

\* the key a maximum search keeping the last of equal scores would return
Recommended_last(names, node_scores) ==
    IF DOMAIN node_scores = {} THEN "None"
    ELSE LET idx  == {i \in 1..Len(names) : names[i] \in DOMAIN node_scores}
             best == CHOOSE i \in idx :
                        /\ \A j \in idx : node_scores[names[j]] <= node_scores[names[i]]
                        /\ \A j \in idx : node_scores[names[j]] = node_scores[names[i]] => j <= i
         IN  names[best]

\* max(node_scores.items(), key=score)[0]: the first key, in insertion
\* order, whose score is the largest; None for an empty dict
Recommended(names, node_scores) ==
    IF DOMAIN node_scores = {} THEN "None"
    ELSE LET idx  == {i \in 1..Len(names) : names[i] \in DOMAIN node_scores}
             best == CHOOSE i \in idx :
                        /\ \A j \in idx : node_scores[names[j]] <= node_scores[names[i]]
                        /\ \A j \in idx : node_scores[names[j]] = node_scores[names[i]] => i <= j
         IN  names[best]

NodeNames(candidate_nodes) == [i \in 1..Len(candidate_nodes) |-> candidate_nodes[i].name]

HeuristicFeaturesUsed ==
    << "cpu_usage_optimization", "cpu_available_ratio", "memory_available_ratio",
       "network_latency", "balance_score", "overload_penalty" >>

\* the heuristic without its "if node_scores else None": max() of an empty
\* sequence raises and the handler answers 500
_default_heuristic_unguarded(req, env) ==
    LET names == NodeNames(req.candidate_nodes)
        node_scores ==
            ZipDict(names, [i \in 1..Len(names) |->
                HeuristicScore(req.candidate_nodes[i], req.pod, req.candidate_nodes,
                               env.telemetry)])
    IN  IF names = <<>>
        THEN [status |-> 500,
              body |-> [node_scores |-> <<>>, recommended_node |-> "None",
                        model_version |-> "", features_used |-> <<>>]]
        ELSE [status |-> 200,
              body |-> [node_scores |-> node_scores,
                        recommended_node |-> Recommended(names, node_scores),
                        model_version |-> "default-heuristic-v3",
                        features_used |-> HeuristicFeaturesUsed]]

_default_heuristic(req, env) ==
    LET names == NodeNames(req.candidate_nodes)
        node_scores ==
            ZipDict(names, [i \in 1..Len(names) |->
                HeuristicScore(req.candidate_nodes[i], req.pod, req.candidate_nodes,
                               env.telemetry)])
    IN  [status |-> 200,
         body |-> [node_scores |-> node_scores,
                   recommended_node |-> Recommended(names, node_scores),
                   model_version |-> "default-heuristic-v3",
                   features_used |-> HeuristicFeaturesUsed]]

----------------------------------------------------------------------------
(* inference_server.py: POST /predict *)

ExtractAll(req, env) ==
    [i \in 1..Len(req.candidate_nodes) |->
        extract_node_features(req.candidate_nodes[i], req.pod, req.existing_pods,
                              req.candidate_nodes, env)]

\* the handler with its except branch removed: the exception reaches the caller
predict_run_no_fallback(req, env, outcome, loader) ==
    IF ~is_loaded(loader)
    THEN [response |-> _default_heuristic(req, env), error |-> FALSE,
          node_features |-> NoFeatures, scores |-> NotCalled, loader |-> loader]
    ELSE LET feats == ExtractAll(req, env)
             res   == ModelLoader_predict(loader, feats, outcome)
             names == NodeNames(req.candidate_nodes)
             node_scores == ZipDict(names, res.scores)
         IN  IF res.exc
             THEN [response |-> [status |-> 500, body |-> [node_scores |-> <<>>,
                       recommended_node |-> "None", model_version |-> "",
                       features_used |-> <<>>]],
                   error |-> TRUE, node_features |-> feats, scores |-> CallOutcome(res),
                   loader |-> res.self]
             ELSE [response |->
                      [status |-> 200,
                       body |-> [node_scores |-> node_scores,
                                 recommended_node |-> Recommended(names, node_scores),
                                 model_version |-> loader.model_version,
                                 features_used |-> get_feature_names]],
                   error |-> FALSE, node_features |-> feats, scores |-> CallOutcome(res),
                   loader |-> res.self]

\* the handler: the response, whether the except branch ran, the locals and
\* the loader after the call.
\* feature_extractor is set by startup_event before any request is served.
predict_run(req, env, outcome, loader) ==
    IF ~is_loaded(loader)
    THEN [response |-> _default_heuristic(req, env), error |-> FALSE,
          node_features |-> NoFeatures, scores |-> NotCalled, loader |-> loader]
    ELSE LET feats == ExtractAll(req, env)
             res   == ModelLoader_predict(loader, feats, outcome)
             names == NodeNames(req.candidate_nodes)
             node_scores == ZipDict(names, res.scores)
         IN  IF res.exc
             THEN [response |-> _default_heuristic(req, env), error |-> TRUE,
                   node_features |-> feats, scores |-> CallOutcome(res),
                   loader |-> res.self]
             ELSE [response |->
                      [status |-> 200,
                       body |-> [node_scores |-> node_scores,
                                 recommended_node |-> Recommended(names, node_scores),
                                 model_version |-> loader.model_version,
                                 features_used |-> get_feature_names]],
                   error |-> FALSE, node_features |-> feats, scores |-> CallOutcome(res),
                   loader |-> res.self]

----------------------------------------------------------------------------
(* train_model.py *)

\* SchedulerModelTrainer.__init__: self.feature_names
TrainerFeatureNames ==
    << "cpu_available_ratio", "memory_available_ratio", "cpu_load_avg",
       "memory_load_avg", "network_latency_normalized", "pod_density",
       "pod_cpu_request", "pod_memory_request", "pod_type_score" >>

\* prepare_data: [col for col in self.feature_names if col in df.columns]
FeatureCols(columns) == SelectSeq(TrainerFeatureNames, LAMBDA c : c \in columns)

Mean(xs) == SumSeq(xs) \div Len(xs)

\* the balance score of _create_labels for one row: the balance_score column
\* when the frame has one, else the distance of the row's load to the mean
LabelBalance(df, i) ==
    IF "balance_score" \in df.columns THEN df.rows[i].balance_score
    ELSE LET avg_cpu_load_cluster    == Mean([k \in 1..Len(df.rows) |-> df.rows[k].cpu_load_avg])
             avg_memory_load_cluster == Mean([k \in 1..Len(df.rows) |-> df.rows[k].memory_load_avg])
             cpu_deviation == Abs(df.rows[i].cpu_load_avg - avg_cpu_load_cluster)
             mem_deviation == Abs(df.rows[i].memory_load_avg - avg_memory_load_cluster)
             cpu_balance_score == IF cpu_deviation > 0 THEN ExpNeg(25 * cpu_deviation) ELSE Scale
             mem_balance_score == IF mem_deviation > 0 THEN ExpNeg(25 * mem_deviation) ELSE Scale
         IN  Max(0, Min(Scale, cpu_balance_score \div 2 + mem_balance_score \div 2))

_create_labels(df) ==
    [i \in 1..Len(df.rows) |->
        LET row == df.rows[i]
        IN  Max(0, Min(Scale,
                Weighted(CpuUsageScore(row.cpu_load_avg), 15)
              + Weighted(LatencyScore(row.network_latency_normalized), 15)
              + Weighted(Scale - row.memory_load_avg, 8)
              + (Weighted(row.cpu_available_ratio, 1) + Weighted(row.memory_available_ratio, 1))
              + Weighted(LabelBalance(df, i), 60)))]

\* train + save_model: the wrapper written to the model file.  The model and
\* the scaler are fitted on the columns prepare_data selected.
save_model(df) ==
    [state |-> "wrapper",
     model |-> [kind |-> "regressor", n_features |-> Len(FeatureCols(df.columns)),
                version |-> ""],
     scaler |-> [kind |-> "scaler", n_features |-> Len(FeatureCols(df.columns)),
                 version |-> "", mean |-> Half, scale |-> Scale \div 4],
     feature_names |-> TrainerFeatureNames,
     version |-> "1.0.0"]

----------------------------------------------------------------------------
(* The cluster the inference server is asked about *)

\* NodeInfo: CPU in hundredths of a core, memory in units of 10 MiB, latency
\* in ms (quantities below 2000 units keep Ratio within 32 bits)
NodeInfos ==
    { [name |-> "node-a", cpu_available |-> 200, cpu_capacity |-> 400,
       memory_available |-> 400, memory_capacity |-> 800,
       labels |-> [k \in {"zone"} |-> "edge"], network_latency |-> 20],
      [name |-> "node-b", cpu_available |-> 300, cpu_capacity |-> 400,
       memory_available |-> 600, memory_capacity |-> 800,
       labels |-> [k \in {"zone"} |-> "core"], network_latency |-> None],
      [name |-> "node-c", cpu_available |-> 0, cpu_capacity |-> 0,
       memory_available |-> 0, memory_capacity |-> 0,
       labels |-> [k \in {"zone"} |-> "edge"], network_latency |-> 150] }

PodInfos ==
    { [name |-> "upf-1", cpu_request |-> 40, memory_request |-> 80, pod_type |-> "UPF",
       labels |-> {[selector |-> TRUE, key |-> "zone", value |-> "edge"],
                   [selector |-> FALSE, key |-> "app", value |-> "upf"]}],
      [name |-> "plain", cpu_request |-> 0, memory_request |-> 0, pod_type |-> "None",
       labels |-> {}] }

ExistingPods ==
    { <<>>,
      << [node |-> "node-a", type |-> "UPF"], [node |-> "node-a", type |-> "UPF"],
         [node |-> "node-b", type |-> "SMF"] >> }

\* candidate lists: every list of distinct nodes, and one list that names the
\* node without capacity twice
CandidateLists ==
    { ns \in SeqsUpTo(NodeInfos, MaxNodes) :
          \A i, j \in 1..Len(ns) : ns[i] = ns[j] => i = j }
    \cup { <<n, n>> : n \in {m \in NodeInfos : m.cpu_capacity = 0} }

PredictionRequests ==
    { [pod |-> p, candidate_nodes |-> ns, existing_pods |-> e] :
          p \in PodInfos, ns \in CandidateLists, e \in ExistingPods }

\* what Prometheus and the cluster inventory answer during one call
Telemetries ==
    { [up |-> FALSE, cpu |-> [n \in {} |-> 0], mem |-> [n \in {} |-> 0]],
      [up |-> TRUE,
       cpu |-> [n \in {"node-a", "node-b", "node-c"} |->
                   CASE n = "node-a" -> 800000 [] n = "node-b" -> 200000 [] OTHER -> 500000],
       mem |-> [n \in {"node-a", "node-b", "node-c"} |->
                   CASE n = "node-a" -> 800000 [] n = "node-b" -> 200000 [] OTHER -> 950000]],
      [up |-> TRUE,
       cpu |-> [n \in {"node-a", "node-b"} |-> 500000],
       \* node-a is so full that the pod's request takes it past 1.0
       mem |-> [n \in {"node-a", "node-b"} |-> IF n = "node-a" THEN 950000 ELSE 400000]] }

Inventories ==
    { [up |-> FALSE, pods |-> [n \in {} |-> 0]],
      [up |-> TRUE, pods |-> [n \in {"node-a", "node-b", "node-c"} |->
                                 IF n = "node-a" THEN 30 ELSE 120]] }

Environments ==
    { [telemetry |-> t, inventory |-> i] : t \in Telemetries, i \in Inventories }

\* how a trained model behaves on one call: it raises, returns scores that
\* ascend with the row, or the same score above 1.0 for every row.  The stub
\* draws nothing, and a model fitted on another width can only raise.
Outcomes(loader) ==
    IF is_loaded(loader) /\ loader.model.kind \in {"regressor", "classifier"}
    THEN IF loader.model.n_features = Len(get_feature_names)
         THEN {"raises", "ascending", "equal_above_one"}
         ELSE {"raises"}
    ELSE {"ascending"}

\* the training frames the data collector writes: one row per node
TrainingFrames ==
    { [columns |-> {"cpu_available_ratio", "memory_available_ratio", "cpu_capacity",
                    "memory_capacity", "cpu_load_avg", "memory_load_avg",
                    "network_latency_normalized", "pod_density", "pod_cpu_request",
                    "pod_memory_request", "pod_type_score", "label"},
       rows |-> rs] :
          rs \in { << [cpu_load_avg |-> 800000, memory_load_avg |-> 800000,
                       cpu_available_ratio |-> 200000, memory_available_ratio |-> 200000,
                       network_latency_normalized |-> 200000, balance_score |-> None],
                      [cpu_load_avg |-> 200000, memory_load_avg |-> 200000,
                       cpu_available_ratio |-> 800000, memory_available_ratio |-> 800000,
                       network_latency_normalized |-> Half, balance_score |-> None] >>,
                   << [cpu_load_avg |-> 500000, memory_load_avg |-> 400000,
                       cpu_available_ratio |-> 500000, memory_available_ratio |-> 600000,
                       network_latency_normalized |-> Half, balance_score |-> None] >> } }

\* the model files the server can be started on, besides the trainer's
Regressor11 == [kind |-> "regressor", n_features |-> 11, version |-> "rf-2.0"]
Scaler11    == [kind |-> "scaler", n_features |-> 11, version |-> "",
                mean |-> Half, scale |-> Scale \div 4]
Scaler9     == [kind |-> "scaler", n_features |-> 9, version |-> "",
                mean |-> Half, scale |-> Scale \div 4]

ModelFile(state, model, scaler, version) ==
    [state |-> state, model |-> model, scaler |-> scaler,
     feature_names |-> <<>>, version |-> version]

ModelFiles ==
    { ModelFile("missing", NoneObj, NoneObj, ""),
      ModelFile("corrupt", NoneObj, NoneObj, ""),
      ModelFile("raw", Regressor11, NoneObj, ""),
      ModelFile("raw", [kind |-> "classifier", n_features |-> 11, version |-> ""], NoneObj, ""),
      ModelFile("raw", [kind |-> "opaque", n_features |-> 0, version |-> ""], NoneObj, ""),
      ModelFile("wrapper", Regressor11, Scaler11, "2.1.0"),
      ModelFile("wrapper", Regressor11, Scaler9, ""),
      \* a dict without the 'model' key
      ModelFile("wrapper", NoneObj, Scaler11, "1.0.0") }

----------------------------------------------------------------------------
(* Actions of the trainer and of the inference server *)

\* train_model.py main(): prepare_data, train, save_model; it runs offline,
\* before the server is started on the file it wrote
train ==
    \E df \in TrainingFrames :
        /\ handler = "none"
        /\ ~model_loader.constructed
        /\ handler' = "train"
        /\ request' = [json |-> TRUE, df |-> df]
        /\ response' = [status |-> 0, feature_cols |-> FeatureCols(df.columns),
                        labels |-> _create_labels(df)]
        /\ model_file' = save_model(df)
        /\ node_features' = NoFeatures
        /\ scores' = NotCalled
        /\ UNCHANGED <<model_loader, prediction_requests>>

startup_event ==
    /\ handler = "none"
    /\ ~model_loader.constructed
    /\ handler' = "startup"
    /\ model_loader' = load_model(ModelLoader_init, model_file)
    /\ request' = NoRequest
    /\ response' = NoResponse
    /\ node_features' = NoFeatures
    /\ scores' = NotCalled
    /\ UNCHANGED <<model_file, prediction_requests>>

\* the handler if a model that raised were replaced by the stub for the
\* calls that follow
predict_degrading ==
    \E req \in PredictionRequests, env \in Environments, outcome \in Outcomes(model_loader) :
        /\ handler = "none"
        /\ model_loader.constructed
        /\ prediction_requests.success < MaxCalls
        /\ \E run \in {predict_run(req, env, outcome, model_loader)} :
               /\ response' = run.response
               /\ node_features' = run.node_features
               /\ scores' = run.scores
               /\ model_loader' = IF run.error THEN InstallStub(run.loader) ELSE run.loader
               /\ prediction_requests' =
                      [success |-> prediction_requests.success + 1,
                       error |-> prediction_requests.error + (IF run.error THEN 1 ELSE 0)]
        /\ handler' = "predict"
        /\ request' = [json |-> TRUE, pod |-> req.pod, candidate_nodes |-> req.candidate_nodes,
                       existing_pods |-> req.existing_pods, env |-> env, outcome |-> outcome]
        /\ UNCHANGED model_file

predict ==
    \E req \in PredictionRequests, env \in Environments, outcome \in Outcomes(model_loader) :
        /\ handler = "none"
        /\ model_loader.constructed
        /\ prediction_requests.success < MaxCalls
        /\ \E run \in {predict_run(req, env, outcome, model_loader)} :
               /\ response' = run.response
               /\ node_features' = run.node_features
               /\ scores' = run.scores
               /\ model_loader' = run.loader
               /\ prediction_requests' =
                      [success |-> prediction_requests.success + 1,
                       error |-> prediction_requests.error + (IF run.error THEN 1 ELSE 0)]
        /\ handler' = "predict"
        /\ request' = [json |-> TRUE, pod |-> req.pod, candidate_nodes |-> req.candidate_nodes,
                       existing_pods |-> req.existing_pods, env |-> env, outcome |-> outcome]
        /\ UNCHANGED model_file

----------------------------------------------------------------------------
(* The response is sent; everything request-scoped is discarded *)

Return ==
    /\ handler # "none"
    /\ handler' = "none"
    /\ request' = NoRequest
    /\ response' = NoResponse
    /\ node_features' = NoFeatures
    /\ scores' = NotCalled
    /\ UNCHANGED <<model_file, model_loader, prediction_requests>>

----------------------------------------------------------------------------
(* The inference server with the trainer that writes its model file *)

Init ==
    /\ handler = "none"
    /\ request = NoRequest
    /\ response = NoResponse
    /\ model_file \in ModelFiles
    /\ model_loader = NotConstructed
    /\ prediction_requests = [success |-> 0, error |-> 0]
    /\ node_features = NoFeatures
    /\ scores = NotCalled

Next ==
    \/ train
    \/ startup_event
    \/ predict
    \/ Return

Spec == Init /\ [][Next]_vars

(* The inference server started on the file the trainer wrote: the model
   raises on every online matrix, so each request runs the feature
   extraction and then the heuristic *)

InitTrained ==
    /\ handler = "none"
    /\ request = NoRequest
    /\ response = NoResponse
    /\ model_file \in {save_model(df) : df \in TrainingFrames}
    /\ model_loader = NotConstructed
    /\ prediction_requests = [success |-> 0, error |-> 0]
    /\ node_features = NoFeatures
    /\ scores = NotCalled

NextTrained ==
    \/ startup_event
    \/ predict
    \/ Return

SpecTrained == InitTrained /\ [][NextTrained]_vars

(* The inference server while the telemetry changes during a call: every
   load lookup is a query of its own, so the feature vector of each
   candidate is extracted against what Prometheus answers at that moment,
   and the heuristic against what it answers afterwards *)

\* extract_node_features for each candidate in turn, envs[i] being what the
\* telemetry and the inventory answer while candidate i is extracted
ExtractAllAt(req, envs) ==
    [i \in 1..Len(req.candidate_nodes) |->
        extract_node_features(req.candidate_nodes[i], req.pod, req.existing_pods,
                              req.candidate_nodes, envs[i])]

\* the handler, with the last of envs answering the heuristic's lookups
predict_run_at(req, envs, outcome, loader) ==
    LET after == envs[Len(envs)]
    IN  IF ~is_loaded(loader)
        THEN [response |-> _default_heuristic(req, after), error |-> FALSE,
              node_features |-> NoFeatures, scores |-> NotCalled, loader |-> loader]
        ELSE LET feats == ExtractAllAt(req, envs)
                 res   == ModelLoader_predict(loader, feats, outcome)
                 names == NodeNames(req.candidate_nodes)
                 node_scores == ZipDict(names, res.scores)
             IN  IF res.exc
                 THEN [response |-> _default_heuristic(req, after), error |-> TRUE,
                       node_features |-> feats, scores |-> CallOutcome(res),
                       loader |-> res.self]
                 ELSE [response |->
                          [status |-> 200,
                           body |-> [node_scores |-> node_scores,
                                     recommended_node |-> Recommended(names, node_scores),
                                     model_version |-> loader.model_version,
                                     features_used |-> get_feature_names]],
                       error |-> FALSE, node_features |-> feats,
                       scores |-> CallOutcome(res), loader |-> res.self]

\* the answers during one call over n candidates: the telemetry may change
\* from one candidate to the next, the inventory stays as it is
EnvironmentsDuring(n) ==
    { [i \in 1..(n + 1) |-> [telemetry |-> ts[i], inventory |-> inv]] :
          ts \in [1..(n + 1) -> Telemetries], inv \in Inventories }

predict_while_telemetry_changes ==
    \E req \in {r \in PredictionRequests : r.existing_pods = <<>>},
       outcome \in Outcomes(model_loader) :
      \E envs \in EnvironmentsDuring(Len(req.candidate_nodes)) :
        /\ handler = "none"
        /\ model_loader.constructed
        /\ prediction_requests.success < MaxCalls
        /\ \E run \in {predict_run_at(req, envs, outcome, model_loader)} :
               /\ response' = run.response
               /\ node_features' = run.node_features
               /\ scores' = run.scores
               /\ model_loader' = run.loader
               /\ prediction_requests' =
                      [success |-> prediction_requests.success + 1,
                       error |-> prediction_requests.error + (IF run.error THEN 1 ELSE 0)]
        /\ handler' = "predict"
        /\ request' = [json |-> TRUE, pod |-> req.pod, candidate_nodes |-> req.candidate_nodes,
                       existing_pods |-> req.existing_pods, envs |-> envs,
                       outcome |-> outcome]
        /\ UNCHANGED model_file

InitChanging ==
    /\ handler = "none"
    /\ request = NoRequest
    /\ response = NoResponse
    /\ model_file \in {ModelFile("missing", NoneObj, NoneObj, "")}
                        \cup {save_model(df) : df \in TrainingFrames}
    /\ model_loader = NotConstructed
    /\ prediction_requests = [success |-> 0, error |-> 0]
    /\ node_features = NoFeatures
    /\ scores = NotCalled

NextChanging ==
    \/ startup_event
    \/ predict_while_telemetry_changes
    \/ Return

SpecChanging == InitChanging /\ [][NextChanging]_vars

(* The extender, a process of its own *)

InitExtender ==
    /\ handler = "none"
    /\ request = NoRequest
    /\ response = NoResponse
    /\ model_file = ModelFile("missing", NoneObj, NoneObj, "")
    /\ model_loader = NotConstructed
    /\ prediction_requests = [success |-> 0, error |-> 0]
    /\ node_features = NoFeatures
    /\ scores = NotCalled

NextExtender ==
    \/ filter
    \/ prioritize
    \/ Return

SpecExtender == InitExtender /\ [][NextExtender]_vars

(* The quantity parsers of the extender, called on the strings a manifest
   can carry *)

\* a natural number as the decimal string a client writes
RECURSIVE Str(_)
Str(n) ==
    LET d == CHOOSE c \in Digits : DigitVal(c) = n % 10
    IN  IF n < 10 THEN <<d>> ELSE Append(Str(n \div 10), d)

MemoryCounts == {0, 1, 5, 100, 128, 999}

\* what follows the leading integer: nothing, the eight units, and text
\* the table does not know
MemorySuffixes ==
    { <<>>, <<"K", "i">>, <<"M", "i">>, <<"G", "i">>, <<"T", "i">>,
      <<"K">>, <<"M">>, <<"G">>, <<"T">>,
      <<"i">>, <<"m">>, <<"k">>, <<"E">>, <<"E", "i">>, <<"B">>,
      <<".", "5", "G", "i">>, <<"M", "B">>, <<"G", "i", "B">> }

CpuWholes == {0, 1, 2, 21, 500, 1500}

\* the fractions written after a whole number, while the digits of the
\* quantity times Scale stay within 32 bits
CpuFractions(whole) ==
    { f \in { <<>>, <<"5">>, <<"2", "5">> } : (whole + 1) * Pow(10, Len(f)) <= 2147 }

\* a CPU quantity: whole[.fraction][m]
CpuString(whole, fraction, milli) ==
    Str(whole) \o (IF fraction = <<>> THEN <<>> ELSE <<".">> \o fraction)
               \o (IF milli THEN <<"m">> ELSE <<>>)

\* strings float() rejects, and the empty string
CpuOddStrings == { <<>>, <<"m">>, <<"x">>, <<"1", "k">>, <<"1", "0", "0", "u">> }

call_parse_memory ==
    \E n \in MemoryCounts, rest \in MemorySuffixes :
        /\ handler = "none"
        /\ handler' = "_parse_memory"
        /\ request' = [json |-> TRUE, memory_str |-> Str(n) \o rest, n |-> n, rest |-> rest]
        /\ response' = [status |-> 0, bytes |-> _parse_memory(Str(n) \o rest)]
        /\ UNCHANGED <<model_file, model_loader, prediction_requests, node_features, scores>>

call_parse_cpu ==
    \/ \E whole \in CpuWholes : \E fraction \in CpuFractions(whole), milli \in BOOLEAN :
           /\ handler = "none"
           /\ handler' = "_parse_cpu"
           /\ request' = [json |-> TRUE, cpu_str |-> CpuString(whole, fraction, milli),
                          wellformed |-> TRUE,
                          whole |-> whole, fraction |-> fraction, milli |-> milli]
           /\ response' = [status |-> 0,
                           cores |-> _parse_cpu(CpuString(whole, fraction, milli))]
           /\ UNCHANGED <<model_file, model_loader, prediction_requests, node_features, scores>>
    \/ \E odd \in CpuOddStrings :
           /\ handler = "none"
           /\ handler' = "_parse_cpu"
           /\ request' = [json |-> TRUE, cpu_str |-> odd, wellformed |-> FALSE,
                          whole |-> 0, fraction |-> <<>>, milli |-> FALSE]
           /\ response' = [status |-> 0, cores |-> _parse_cpu(odd)]
           /\ UNCHANGED <<model_file, model_loader, prediction_requests, node_features, scores>>

NextParser ==
    \/ call_parse_memory
    \/ call_parse_cpu
    \/ Return

SpecParser == InitExtender /\ [][NextParser]_vars

(* One external lookup, request by request: the telemetry queries of the
   feature extractor and of the extender, and the extender's call of the
   inference server *)

Lookups == {"_get_node_cpu_load", "_get_node_memory_load", "_get_network_latency"}

\* prioritize_nodes posts the prediction request to the inference server
BackendCall == "prioritize_nodes"

\* what the peer does with one HTTP request: a value (a load, a round trip
\* time in seconds, a score), an empty result, status "error", an HTTP error
\* status, no answer within the timeout, a body that is not the expected JSON
Answers ==
    { [kind |-> "value", v |-> v] : v \in {0, 200000, Half, 800000, Scale} }
    \cup { [kind |-> k, v |-> 0] :
               k \in {"empty", "not_success", "http_error", "timeout", "bad_json"} }

\* _query_prometheus: the value, or None on an empty result and on any exception
_query_prometheus(answer) == IF answer.kind = "value" THEN answer.v ELSE None

\* what the caller gets from the lookup once the request is answered
LookupResult(lookup, answer) ==
    CASE lookup \in {"_get_node_cpu_load", "_get_node_memory_load"} ->
             \* float(result) if result else 0.0
             LET result == _query_prometheus(answer)
             IN  IF result # None /\ result # 0 THEN result ELSE 0
      [] lookup = "_get_network_latency" ->
             \* latency_seconds * 1000.0, or None
             IF answer.kind = "value" THEN answer.v * 1000 ELSE None
      [] lookup = BackendCall ->
             \* the host priority: int(score * 10), or the uniform default
             IF answer.kind = "value" THEN IntTimes10(answer.v)
             ELSE _default_prioritization(<<[name |-> "node-a"]>>).hostPriorities[1].score

\* the lookup if a failed request were sent once more
AfterAnswer_retry(req, answer) ==
    IF answer.kind # "value" /\ req.requests_sent < 2
    THEN [pending |-> TRUE, requests_sent |-> req.requests_sent + 1]
    ELSE [pending |-> FALSE, requests_sent |-> req.requests_sent]

\* after the answer: the try block has no loop, the except branch returns
AfterAnswer(req, answer) ==
    [pending |-> FALSE, requests_sent |-> req.requests_sent]

\* the lookup is entered and its one requests.get / requests.post is sent
lookup_call ==
    \E lookup \in Lookups \cup {BackendCall} :
      \E node_name \in IF lookup = BackendCall THEN {"node-a"}
                        ELSE {"node-a", "node-b", "node-c"} :
        /\ handler = "none"
        /\ handler' = lookup
        /\ request' = [json |-> TRUE, node_name |-> node_name,
                       requests_sent |-> 1, pending |-> TRUE]
        /\ response' = NoResponse
        /\ UNCHANGED <<model_file, model_loader, prediction_requests, node_features, scores>>

\* the request is answered, or times out
lookup_answer ==
    \E answer \in Answers :
        /\ handler \in Lookups \cup {BackendCall}
        /\ request.pending
        /\ LET after == AfterAnswer(request, answer)
           IN  /\ request' = [request EXCEPT !.pending = after.pending,
                                             !.requests_sent = after.requests_sent]
               /\ response' = IF after.pending THEN NoResponse
                              ELSE [status |-> 0, answer |-> answer,
                                    result |-> LookupResult(handler, answer)]
        /\ UNCHANGED <<handler, model_file, model_loader, prediction_requests,
                       node_features, scores>>

lookup_return ==
    /\ handler \in Lookups \cup {BackendCall}
    /\ ~request.pending
    /\ Return

NextLookup ==
    \/ lookup_call
    \/ lookup_answer
    \/ lookup_return

SpecLookup == InitExtender /\ [][NextLookup]_vars

----------------------------------------------------------------------------
(* Claims about the extender *)

PrioritizeFailed ==
    \/ ~request.json
    \/ _prepare_prediction_request(request.pod, request.nodes, request.prometheus).exc
    \/ request.backend.kind # "ok"

\* C1: every /prioritize request, also one with a missing body, a request the
\* backend request cannot be built from, or a failed backend call, is answered
\* without an HTTP error, each input node getting the neutral score 5.
C1_PrioritizeNeverFails ==
    (handler = "prioritize" /\ PrioritizeFailed) =>
        /\ response.status = 200
        /\ response.body.hostPriorities =
               [i \in 1..Len(request.nodes) |-> [host |-> request.nodes[i].name, score |-> 5]]

\* C6: in a successful /prioritize response the integer score of each node is
\* round(float_score * 10) of the backend's node_scores value.
C6_ScoreIsRounded ==
    (handler = "prioritize" /\ ~PrioritizeFailed) =>
        \A i \in 1..Len(request.nodes) :
            response.body.hostPriorities[i].score =
                RoundTimes10(ScoreOf(request.backend.node_scores, request.nodes[i].name))

\* the capacity test of the claim, node by node
C7_Fits(node, pod) ==
    LET req == SumRequests(pod.containers)
    IN  /\ _parse_cpu(Get(node.alloc_cpu, <<"0">>)).v >= req.cpu
        /\ MemGe(_parse_memory(Get(node.alloc_memory, <<"0">>)), req.mem)

C7_Failed(node) == [name |-> node.name, reason |-> "InsufficientResources"]

RECURSIVE C7_Accepted(_, _)
C7_Accepted(nodes, pod) ==
    IF nodes = <<>> THEN <<>>
    ELSE (IF C7_Fits(Head(nodes), pod) THEN <<Head(nodes)>> ELSE <<>>)
         \o C7_Accepted(Tail(nodes), pod)

RECURSIVE C7_Rejected(_, _)
C7_Rejected(nodes, pod) ==
    IF nodes = <<>> THEN <<>>
    ELSE (IF C7_Fits(Head(nodes), pod) THEN <<>> ELSE <<C7_Failed(Head(nodes))>>)
         \o C7_Rejected(Tail(nodes), pod)

C8_FilterNeverHttpError ==
    handler = "filter" => response.status = 200

----------------------------------------------------------------------------
(* Claims about the /predict handler *)

\* scaler.transform raised during the call that produced the response
C2_ScalingRaised ==
    /\ scores.called
    /\ is_loaded(model_loader)
    /\ model_loader.scaler # NoneObj
    /\ TransformRaises(model_loader.scaler, node_features)

\* C2: every /predict request gets a score result; when no model is loaded,
\* or an exception occurs in feature extraction, scaling or model prediction,
\* the result is the heuristic's (model_version default-heuristic-v3).
C2_HeuristicOnAnyFailure ==
    handler = "predict" =>
        /\ response.status = 200
        /\ (~is_loaded(model_loader) \/ scores.exc \/ C2_ScalingRaised) =>
               response.body.model_version = "default-heuristic-v3"

\* C2 as amended: every /predict request gets a score result; when no model
\* is loaded or ModelLoader.predict raises, the result is the heuristic's;
\* a scaler.transform failure alone is absorbed inside ModelLoader.predict
\* and the response carries the loaded model's scores and version.
C2_HeuristicOnPropagatedFailure ==
    handler = "predict" =>
        /\ response.status = 200
        /\ (~is_loaded(model_loader) \/ scores.exc) =>
               response = _default_heuristic(request, request.env)
        /\ (is_loaded(model_loader) /\ ~scores.exc) =>
               /\ response.body.model_version = model_loader.model_version
               /\ response.body.model_version # "default-heuristic-v3"
               /\ response.body.node_scores =
                      ZipDict(NodeNames(request.candidate_nodes), scores.scores)

C2_Witness ==
    /\ handler = "predict"
    /\ scores.called
    /\ scores.exc
    /\ Len(request.candidate_nodes) = 2
    /\ prediction_requests.error = 1
    /\ response.status = 200
    /\ response.body.model_version = "default-heuristic-v3"

----------------------------------------------------------------------------
(* Claims about the balance score *)

\* the training frame holding the loads of the request's nodes, one row each
C3_LoadsFrame(candidate_nodes, telemetry) ==
    [columns |-> {"cpu_load_avg", "memory_load_avg"},
     rows |-> [i \in 1..Len(candidate_nodes) |->
                  [cpu_load_avg |-> _get_node_cpu_load(telemetry, candidate_nodes[i].name),
                   memory_load_avg |->
                       _get_node_memory_load(telemetry, candidate_nodes[i].name)]]]

\* C3: for the same node loads, pod request and capacities, the balance score
\* of the training labels, the balance_score feature and the balance term of
\* the online heuristic are one value.
C3_BalanceIsOneFunction ==
    (handler = "predict" /\ node_features # NoFeatures) =>
        \A i \in 1..Len(request.candidate_nodes) :
            /\ node_features[i][7] =
                   HeuristicBalance(request.candidate_nodes[i], request.pod,
                                    request.candidate_nodes, request.env.telemetry)
            /\ node_features[i][7] =
                   LabelBalance(C3_LoadsFrame(request.candidate_nodes,
                                              request.env.telemetry), i)

----------------------------------------------------------------------------
(* Claims about the feature vector *)

\* the values the claim lists, in its order, for one node of the request
C4_RowInOrder(row, node, req) ==
    /\ Len(row) = 11
    /\ row[1] = Ratio(node.cpu_available, node.cpu_capacity)
    /\ row[2] = Ratio(node.memory_available, node.memory_capacity)
    /\ row[3] = (IF node.network_latency # None
                 THEN Min(Scale, (node.network_latency * Scale) \div 100) ELSE Half)
    /\ row[4] = _get_node_cpu_load(req.env.telemetry, node.name)
    /\ row[5] = _get_node_memory_load(req.env.telemetry, node.name)
    /\ row[6] = _get_node_pod_density(req.env.inventory, node.name)
    /\ row[7] = FeatureBalance(node, req.pod, req.candidate_nodes, req.env.telemetry)
    /\ row[8] = Max(0, (row[4] + row[5]) \div 2 - 700000)
    /\ row[9] = _calculate_label_compatibility(node.labels, req.pod.labels)
    /\ row[10] = _get_pod_type_score(req.pod.pod_type)
    /\ row[11] = (_count_same_type_pods(node.name, req.pod.pod_type, req.existing_pods)
                      * Scale) \div 10

\* the stub's score when it takes latency, CPU load, memory load and balance
\* from the positions the order gives them
C4_StubScore(node, req) ==
    LET latency == IF node.network_latency # None
                   THEN Min(Scale, (node.network_latency * Scale) \div 100) ELSE Half
    IN  Max(0, Min(Scale,
            Weighted(CpuUsageScore(_get_node_cpu_load(req.env.telemetry, node.name)), 15)
          + Weighted(LatencyScore(latency), 15)
          + Weighted(Scale - _get_node_memory_load(req.env.telemetry, node.name), 8)
          + Weighted(Ratio(node.cpu_available, node.cpu_capacity), 1)
          + Weighted(Ratio(node.memory_available, node.memory_capacity), 1)
          + Weighted(FeatureBalance(node, req.pod, req.candidate_nodes,
                                    req.env.telemetry), 60)))

C4_ValuesAndStub ==
    \A i \in 1..Len(request.candidate_nodes) :
        /\ C4_RowInOrder(node_features[i], request.candidate_nodes[i], request)
        /\ model_loader.model.kind \in {"stub", "opaque"} =>
               scores.scores[i] = C4_StubScore(request.candidate_nodes[i], request)

\* C4: extract_node_features returns 11 values in the stated order,
\* get_feature_names returns the names cpu_available_ratio .. pod_type_score,
\* same_type_pod_count_normalized in that order, and the stub reads latency,
\* CPU load, memory load and balance from the matching positions.
C4_FeatureOrderAndSpecNames ==
    (handler = "predict" /\ scores.called /\ ~scores.exc) =>
        /\ C4_ValuesAndStub
        /\ response.body.features_used =
               << "cpu_available_ratio", "memory_available_ratio",
                  "network_latency_normalized", "cpu_load_avg", "memory_load_avg",
                  "pod_density", "balance_score", "overload_penalty",
                  "label_compatibility", "pod_type_score",
                  "same_type_pod_count_normalized" >>

\* C4 as amended: the same, the eleventh name being same_type_pods_count.
C4_FeatureOrderAndNames ==
    (handler = "predict" /\ scores.called /\ ~scores.exc) =>
        /\ C4_ValuesAndStub
        /\ response.body.features_used =
               << "cpu_available_ratio", "memory_available_ratio",
                  "network_latency_normalized", "cpu_load_avg", "memory_load_avg",
                  "pod_density", "balance_score", "overload_penalty",
                  "label_compatibility", "pod_type_score", "same_type_pods_count" >>

C4_Witness ==
    /\ handler = "predict"
    /\ model_loader.model.kind = "stub"
    /\ scores.called
    /\ ~scores.exc
    /\ Len(node_features) = 2
    /\ Len(node_features[1]) = 11
    /\ node_features[1][3] # node_features[1][4]
    /\ node_features[1][4] # node_features[1][5]
    /\ node_features[1][11] > 0
    /\ scores.scores[1] # scores.scores[2]

----------------------------------------------------------------------------
(* Claims about the trainer's artifact and the loader *)

\* C5: the feature list the trainer uses and writes into its artifact is the
\* 11-name ordered list of the online extractor, so the model and the scaler
\* it fitted take the online feature matrix column for column.
C5_TrainerMatchesExtractor ==
    /\ handler = "train" =>
           /\ response.feature_cols = get_feature_names
           /\ model_file.feature_names = get_feature_names
    /\ (handler = "predict" /\ model_file.feature_names # <<>>
            /\ request.candidate_nodes # <<>>) =>
           /\ ~TransformRaises(model_loader.scaler, node_features)
           /\ Width(node_features) = model_loader.model.n_features

\* C9: load_model returns with is_loaded() true for every state of the model
\* file (missing, undeserializable, raw model, wrapper); for a missing or
\* undeserializable file the installed model is the stub.
C9_AlwaysLoaded ==
    handler = "startup" =>
        /\ is_loaded(model_loader)
        /\ model_file.state \in {"missing", "corrupt"} => model_loader.model = StubModel

\* C10: when model.predict or model.predict_proba raises inside
\* ModelLoader.predict, the call returns the stub's prediction for the same
\* feature matrix instead of raising.
C10_StubOnModelFailure ==
    (/\ handler = "predict"
     /\ scores.called
     /\ model_loader.model.kind \in {"regressor", "classifier"}
     /\ TrainedRaises(model_loader.model, node_features, request.outcome)) =>
        /\ ~scores.exc
        /\ scores.scores = StubModel_predict(node_features)

----------------------------------------------------------------------------
(* Claims about the loader during requests *)

\* C11: ModelLoader.predict, whether it succeeds, uses the stub or raises,
\* leaves the loader's model, scaler, model_version and loaded flag as they
\* were; once startup has built the loader no request changes them, so a call
\* after a failed one still takes the model path.
C11_LoaderIsFrozen ==
    [][model_loader.constructed => model_loader' = model_loader]_vars

\* a call answered by the trained model after an earlier call had failed
C11_Witness ==
    /\ handler = "predict"
    /\ prediction_requests.success = 2
    /\ prediction_requests.error = 1
    /\ model_loader.model.kind = "regressor"
    /\ scores.called
    /\ ~scores.exc
    /\ response.body.model_version = model_loader.model_version

\* C12: when a scaler is present and scaler.transform raises,
\* ModelLoader.predict goes on with the unscaled feature matrix and returns
\* the model's prediction on it; the transform failure alone does not fail
\* the call.
C12_TransformFailureContinues ==
    (/\ handler = "predict"
     /\ C2_ScalingRaised
     /\ ~TrainedRaises(model_loader.model, node_features, request.outcome)) =>
        /\ ~scores.exc
        /\ ~scores.scaled
        /\ scores.matrix = node_features
        /\ scores.scores = TrainedScores(node_features, request.outcome)
        /\ response.body.model_version = model_loader.model_version

C12_Witness ==
    /\ handler = "predict"
    /\ C2_ScalingRaised
    /\ Len(node_features) = 2
    /\ ~scores.exc
    /\ scores.matrix = node_features
    /\ Len(scores.scores) = 2
    /\ response.body.model_version = "1.0.0"

----------------------------------------------------------------------------
(* Claims about the balance score of a request *)

\* the case in which the balance score is said to be the neutral 0.5
C13_Neutral(node, candidate_nodes) ==
    \/ Len(candidate_nodes) < 2
    \/ node.cpu_capacity <= 0
    \/ node.memory_capacity <= 0

\* C13: balance_score is exactly 0.5 if and only if the candidate set has
\* fewer than 2 nodes or the evaluated node's capacity is <= 0, in the
\* feature path and in the heuristic path.
C13_NeutralIffDegenerate ==
    handler = "predict" =>
        \A i \in 1..Len(request.candidate_nodes) :
            /\ node_features # NoFeatures =>
                   (node_features[i][7] = Half
                        <=> C13_Neutral(request.candidate_nodes[i], request.candidate_nodes))
            /\ response.body.model_version = "default-heuristic-v3" =>
                   (HeuristicBalance(request.candidate_nodes[i], request.pod,
                                     request.candidate_nodes, request.env.telemetry) = Half
                        <=> C13_Neutral(request.candidate_nodes[i], request.candidate_nodes))

\* the orderings of a candidate list
C14_Permutations(candidate_nodes) ==
    LET n == Len(candidate_nodes)
    IN  { [i \in 1..n |-> candidate_nodes[f[i]]] :
              f \in {g \in [1..n -> 1..n] : \A a, b \in 1..n : g[a] = g[b] => a = b} }

C15_CpuStd(i) ==
    PopStd(FutureCpuLoads(request.candidate_nodes[i], request.pod,
                          request.candidate_nodes, request.env.telemetry))

C15_MemStd(i) ==
    PopStd(FutureMemLoads(request.candidate_nodes[i], request.pod,
                          request.candidate_nodes, request.env.telemetry))

C15_HeuristicBalance(i) ==
    HeuristicBalance(request.candidate_nodes[i], request.pod,
                     request.candidate_nodes, request.env.telemetry)

\* candidate i is node A or B of the scenario: both loads at the given
\* value, the pod asking for a tenth of the node's capacity
C15_Is(i, name, load) ==
    /\ request.candidate_nodes[i].name = name
    /\ node_features[i][4] = load
    /\ node_features[i][5] = load
    /\ request.pod.cpu_request * 10 = request.candidate_nodes[i].cpu_capacity
    /\ request.pod.memory_request * 10 = request.candidate_nodes[i].memory_capacity
    /\ request.pod.cpu_request > 0

\* C15: with candidates A (CPU and memory load 0.8) and B (both 0.2) and a
\* pod asking for 10% of each node's capacity, B scores strictly higher than
\* A; and within one candidate list a candidate whose placement leaves a
\* larger standard deviation has a strictly smaller balance score.
C15_BalanceFavoursLowerSpread ==
    (handler = "predict" /\ node_features # NoFeatures) =>
        \A i, j \in 1..Len(request.candidate_nodes) :
            /\ (/\ Len(request.candidate_nodes) = 2
                /\ C15_Is(i, "node-a", 800000)
                /\ C15_Is(j, "node-b", 200000)) =>
                   /\ node_features[j][7] > node_features[i][7]
                   /\ C15_HeuristicBalance(j) > C15_HeuristicBalance(i)
                   /\ response.body.model_version = "default-heuristic-v3" =>
                          response.body.node_scores["node-b"]
                              > response.body.node_scores["node-a"]
            /\ (/\ C15_CpuStd(i) >= C15_CpuStd(j)
                /\ C15_MemStd(i) >= C15_MemStd(j)
                /\ C15_CpuStd(i) + C15_MemStd(i) > C15_CpuStd(j) + C15_MemStd(j)) =>
                   /\ node_features[i][7] < node_features[j][7]
                   /\ C15_HeuristicBalance(i) < C15_HeuristicBalance(j)

C15_Witness ==
    /\ handler = "predict"
    /\ Len(node_features) = 2
    /\ C15_Is(1, "node-a", 800000)
    /\ C15_Is(2, "node-b", 200000)
    /\ C15_CpuStd(1) > C15_CpuStd(2)
    /\ response.body.model_version = "default-heuristic-v3"
    /\ response.body.recommended_node = "node-b"

----------------------------------------------------------------------------
(* Claims about defaults *)

\* C16: when every telemetry query fails and the cluster inventory is
\* unavailable, extract_node_features still returns 11 values with
\* cpu_load_avg, memory_load_avg and pod_density 0.0 and, where the latency
\* is unmeasured, network_latency_normalized 0.5; nothing fails and the
\* predict call ends with a score for every candidate.
C16_DefaultsWhenTelemetryDown ==
    (/\ handler = "predict"
     /\ node_features # NoFeatures
     /\ ~request.env.telemetry.up
     /\ ~request.env.inventory.up) =>
        /\ Len(node_features) = Len(request.candidate_nodes)
        /\ \A i \in 1..Len(node_features) :
               /\ Len(node_features[i]) = 11
               /\ node_features[i][4] = 0
               /\ node_features[i][5] = 0
               /\ node_features[i][6] = 0
               /\ request.candidate_nodes[i].network_latency = None =>
                      node_features[i][3] = Half
        /\ response.status = 200
        /\ DOMAIN response.body.node_scores =
               {request.candidate_nodes[i].name : i \in 1..Len(request.candidate_nodes)}
        /\ (model_loader.model.kind = "stub") =>
               (~scores.exc /\ response.body.model_version = "stub-v1.0")

C16_Witness ==
    /\ handler = "predict"
    /\ ~request.env.telemetry.up
    /\ ~request.env.inventory.up
    /\ model_loader.model.kind = "stub"
    /\ Len(node_features) = 2
    /\ request.candidate_nodes[1].network_latency = None
    /\ request.candidate_nodes[2].network_latency # None
    /\ node_features[1][3] = Half
    /\ node_features[1][4] = 0
    /\ DOMAIN response.body.node_scores = {"node-a", "node-b"}

\* the heuristic's score of a node whose normalized latency is the given one
C17_HeuristicScoreAt(node, latency) ==
      Weighted(CpuUsageScore(_get_node_cpu_load(request.env.telemetry, node.name)), 15)
    + Weighted(LatencyScore(latency), 15)
    + Weighted(Scale - _get_node_memory_load(request.env.telemetry, node.name), 8)
    + Weighted(Ratio(node.cpu_available, node.cpu_capacity), 1)
    + Weighted(Ratio(node.memory_available, node.memory_capacity), 1)
    + Weighted(HeuristicBalance(node, request.pod, request.candidate_nodes,
                                request.env.telemetry), 60)

\* C17: a node whose latency is unmeasured (network_latency None) is scored
\* with the normalized latency 0.5 on every path: the feature vector carries
\* 0.5 and the heuristic's latency sub-score is the one computed from 0.5.
C17_UnmeasuredLatencyIsHalf ==
    handler = "predict" =>
        \A i \in 1..Len(request.candidate_nodes) :
            request.candidate_nodes[i].network_latency = None =>
                /\ node_features # NoFeatures => node_features[i][3] = Half
                /\ response.body.model_version = "default-heuristic-v3" =>
                       response.body.node_scores[request.candidate_nodes[i].name] =
                           C17_HeuristicScoreAt(request.candidate_nodes[i], Half)

----------------------------------------------------------------------------
(* Claims about the scores *)

\* the sub-weights in percent: CPU zone, latency, memory, CPU availability,
\* memory availability, balance
C18_Weights == <<15, 15, 8, 1, 1, 60>>

C18_Sum(cpu_usage_score, latency_score, memory_usage_score, cpu_ratio, memory_ratio,
        balance_score) ==
      Weighted(cpu_usage_score, C18_Weights[1])
    + Weighted(latency_score, C18_Weights[2])
    + Weighted(memory_usage_score, C18_Weights[3])
    + Weighted(cpu_ratio, C18_Weights[4])
    + Weighted(memory_ratio, C18_Weights[5])
    + Weighted(balance_score, C18_Weights[6])

\* the latency sub-score the heuristic adds (none for an unmeasured latency)
C18_HeuristicLatency(node) ==
    IF node.network_latency # None
    THEN LatencyScore(Min(Scale, (node.network_latency * Scale) \div 100))
    ELSE 0

\* C18: the sub-weights 0.15, 0.15, 0.08, 0.01 + 0.01 and 0.60 sum to 1.0 and
\* are the weights of _default_heuristic, of StubModel.predict and of the
\* label generator _create_labels.
C18_SameWeights ==
    /\ SumSeq(C18_Weights) = 100
    /\ (handler = "predict" /\ response.body.model_version = "default-heuristic-v3") =>
           \A i \in 1..Len(request.candidate_nodes) :
               LET node == request.candidate_nodes[i]
               IN  response.body.node_scores[node.name] =
                       C18_Sum(CpuUsageScore(_get_node_cpu_load(request.env.telemetry, node.name)),
                               C18_HeuristicLatency(node),
                               Scale - _get_node_memory_load(request.env.telemetry, node.name),
                               Ratio(node.cpu_available, node.cpu_capacity),
                               Ratio(node.memory_available, node.memory_capacity),
                               HeuristicBalance(node, request.pod, request.candidate_nodes,
                                                request.env.telemetry))
    /\ (handler = "predict" /\ scores.called /\ ~scores.exc
            /\ model_loader.model.kind \in {"stub", "opaque"}) =>
           \A i \in 1..Len(scores.matrix) :
               LET f == scores.matrix[i]
               IN  scores.scores[i] =
                       Max(0, Min(Scale,
                           C18_Sum(CpuUsageScore(f[4]), LatencyScore(f[3]), Scale - f[5],
                                   f[1], f[2], f[7])))
    /\ handler = "train" =>
           \A i \in 1..Len(request.df.rows) :
               LET row == request.df.rows[i]
               IN  response.labels[i] =
                       Max(0, Min(Scale,
                           C18_Sum(CpuUsageScore(row.cpu_load_avg),
                                   LatencyScore(row.network_latency_normalized),
                                   Scale - row.memory_load_avg,
                                   row.cpu_available_ratio, row.memory_available_ratio,
                                   LabelBalance(request.df, i))))

\* a request the stub scored with every sub-score weighing in
C18_Witness ==
    /\ handler = "predict"
    /\ model_loader.model.kind = "stub"
    /\ Len(scores.scores) = 2
    /\ \A i \in 1..2 :
           /\ scores.matrix[i][1] > 0
           /\ scores.matrix[i][4] > 0
           /\ scores.matrix[i][7] > 0
           /\ scores.scores[i] > Weighted(scores.matrix[i][7], 60)
           /\ scores.scores[i] < Scale

\* C19: for every request and every candidate the score placed in
\* node_scores lies in [0,1], whether the heuristic, the stub or a loaded
\* model produced it.
C19_ScoresInUnitInterval ==
    handler = "predict" =>
        \A name \in DOMAIN response.body.node_scores :
            /\ 0 <= response.body.node_scores[name]
            /\ response.body.node_scores[name] <= Scale

\* the position at which a name first occurs in the candidate list
C20_FirstAt(name) ==
    CHOOSE i \in 1..Len(request.candidate_nodes) :
        /\ request.candidate_nodes[i].name = name
        /\ \A j \in 1..(i - 1) : request.candidate_nodes[j].name # name

\* C20: recommended_node is a node with the maximum score of node_scores,
\* and among the nodes with that score the one that comes first in
\* candidate_nodes, on the model path and on the heuristic path.
C20_RecommendedIsFirstMaximum ==
    (handler = "predict" /\ request.candidate_nodes # <<>>) =>
        LET node_scores == response.body.node_scores
            best        == response.body.recommended_node
        IN  /\ best \in DOMAIN node_scores
            /\ \A name \in DOMAIN node_scores :
                   /\ node_scores[name] <= node_scores[best]
                   /\ node_scores[name] = node_scores[best] =>
                          C20_FirstAt(best) <= C20_FirstAt(name)

\* two different nodes the model scored alike
C20_Witness ==
    /\ handler = "predict"
    /\ scores.called
    /\ ~scores.exc
    /\ Len(request.candidate_nodes) = 2
    /\ request.candidate_nodes[1].name # request.candidate_nodes[2].name
    /\ response.body.node_scores[request.candidate_nodes[1].name]
           = response.body.node_scores[request.candidate_nodes[2].name]
    /\ response.body.recommended_node = request.candidate_nodes[1].name

\* two different nodes the heuristic scored differently, the second higher
C20_WitnessHeuristic ==
    /\ handler = "predict"
    /\ response.body.model_version = "default-heuristic-v3"
    /\ Len(request.candidate_nodes) = 2
    /\ response.body.node_scores[request.candidate_nodes[1].name]
           < response.body.node_scores[request.candidate_nodes[2].name]
    /\ response.body.recommended_node = request.candidate_nodes[2].name

----------------------------------------------------------------------------
(* Claims about the edge cases of the inference server *)

\* C21: a /predict call with an empty candidate list is answered 200 with
\* node_scores = {} and recommended_node = null, whether the model scored
\* the (empty) matrix or the heuristic answered.
C21_EmptyCandidatesEmptyAnswer ==
    (handler = "predict" /\ request.candidate_nodes = <<>>)
        => /\ response.status = 200
           /\ response.body.node_scores = <<>>
           /\ response.body.recommended_node = "None"

\* an empty list went through model_loader.predict, which returned a score
\* for the one empty row, and the answer carries the loader's version
C21_Witness ==
    /\ handler = "predict"
    /\ request.candidate_nodes = <<>>
    /\ scores.called
    /\ ~scores.exc
    /\ scores.scores = <<Half>>
    /\ response.body.model_version = model_loader.model_version
    /\ response.body.node_scores = <<>>

\* C22: when the model file is absent the loader reports loaded with the
\* stub model, and the score the stub returns for every candidate is the
\* weighted sum _default_heuristic computes for the same node, pod,
\* candidate set and telemetry.
C22_StubEqualsHeuristic ==
    (handler = "predict" /\ model_file.state = "missing")
        => /\ is_loaded(model_loader)
           /\ model_loader.model = StubModel
           /\ scores.called /\ ~scores.exc
           /\ \A i \in 1..Len(request.candidate_nodes) :
                  response.body.node_scores[request.candidate_nodes[i].name] =
                      HeuristicScore(request.candidate_nodes[i], request.pod,
                                     request.candidate_nodes, request.env.telemetry)

----------------------------------------------------------------------------
(* Claims about the quantity parsers *)

\* base^n bytes as limbs
RECURSIVE C23_Pow(_, _)
C23_Pow(b, n) ==
    IF n = 0 THEN <<0, 1>>
    ELSE LET p == C23_Pow(b, n - 1) IN MemNorm(p[1] * b, p[2] * b)

C23_Exponent(letter) ==
    CASE letter = "K" -> 1 [] letter = "M" -> 2 [] letter = "G" -> 3 [] letter = "T" -> 4

\* the multiplier of what follows the leading integer: the unit the regex
\* extracts there is the longest of Ki Mi Gi Ti K M G T that the text
\* starts with; without one the multiplier is 1
C23_Multiplier(rest) ==
    IF Len(rest) >= 1 /\ rest[1] \in {"K", "M", "G", "T"}
    THEN IF Len(rest) >= 2 /\ rest[2] = "i"
         THEN C23_Pow(1024, C23_Exponent(rest[1]))
         ELSE C23_Pow(1000, C23_Exponent(rest[1]))
    ELSE <<0, 1>>

\* C23: _parse_memory returns the leading integer times 1024^n for
\* Ki/Mi/Gi/Ti, times 1000^n for K/M/G/T and times 1 for an absent or
\* unrecognized suffix; "128Mi" is 128*1024^2, "1Gi" is 1024^3 and "100M"
\* is 100*1000^2 bytes.
C23_ParseMemory ==
    handler = "_parse_memory"
        => /\ LET m == C23_Multiplier(request.rest)
              IN  response.bytes = MemNorm(request.n * m[1], request.n * m[2])
           /\ request.memory_str = Str_128Mi => response.bytes = <<128, 0>>
           /\ request.memory_str = Str_1Gi => response.bytes = <<1024, 0>>
           /\ request.memory_str = Str_100M => response.bytes = <<95, 385280>>

\* "100M" was parsed: 100 * 1000^2 bytes, which is not 100 * 1024^2
C23_Witness ==
    /\ handler = "_parse_memory"
    /\ request.memory_str = Str_100M
    /\ response.bytes = <<95, 385280>>
    /\ response.bytes # <<100, 0>>

\* C24: _parse_cpu returns value/1000 for a string ending in "m" and the
\* decimal value otherwise, without raising: "500m" is 0.5, "1" is 1.0 and
\* "2.5" is 2.5 cores.
C24_ParseCpu ==
    (handler = "_parse_cpu" /\ request.wellformed)
        => /\ ~response.cores.exc
           /\ LET digits == Len(request.fraction)
                  value  == request.whole * Pow(10, digits) + DigitsValue(request.fraction)
              IN  response.cores.v =
                      IF request.milli
                      THEN (value * Scale) \div (1000 * Pow(10, digits))
                      ELSE (value * Scale) \div Pow(10, digits)
           /\ request.cpu_str = Str_500m => response.cores.v = Half
           /\ request.cpu_str = Str_1 => response.cores.v = Scale
           /\ request.cpu_str = Str_2p5 => response.cores.v = 2 * Scale + Half

\* "500m" was parsed to half a core
C24_Witness ==
    /\ handler = "_parse_cpu"
    /\ request.cpu_str = Str_500m
    /\ request.milli
    /\ ~response.cores.exc
    /\ response.cores.v = Half

----------------------------------------------------------------------------
(* Claims about the external calls *)

\* the neutral default of a telemetry lookup: 0.0 for a load, unknown for
\* the latency
C25_Default(lookup) == IF lookup = "_get_network_latency" THEN None ELSE 0

\* C25: a telemetry lookup and a backend call send at most one request per
\* invocation and never send it again; a lookup whose request failed or
\* came back empty has resolved, with that one request, to the neutral
\* default.
C25_OneRequestNoRetry ==
    handler \in Lookups \cup {BackendCall}
        => /\ request.requests_sent <= 1
           /\ (~request.pending /\ handler \in Lookups /\ response.answer.kind # "value")
                  => response.result = C25_Default(handler)

\* the latency query timed out: the lookup is over, unknown, after one request
C25_Witness ==
    /\ handler = "_get_network_latency"
    /\ ~request.pending
    /\ response.answer.kind = "timeout"
    /\ response.result = None
    /\ request.requests_sent = 1

----------------------------------------------------------------------------
(* Claims about calls that follow one another *)

\* the call of the current request run alone, on the loader as startup_event
\* built it from the model file
C26_Alone ==
    predict_run([pod |-> request.pod, candidate_nodes |-> request.candidate_nodes,
                 existing_pods |-> request.existing_pods],
                request.env, request.outcome, load_model(ModelLoader_init, model_file))

\* every call answers what it would answer alone, and the loader it leaves
\* is the loader startup_event built
C26_AnswersAsAlone ==
    handler = "predict"
        => /\ response = C26_Alone.response
           /\ model_loader = load_model(ModelLoader_init, model_file)

\* C26 as stated: two predict calls, in any order, each return the result
\* they would return alone against the same model and telemetry, and no
\* call writes state the other one writes or reads: the loader, the model
\* file and the counters are left as they were.
C26_NoSharedState ==
    /\ []C26_AnswersAsAlone
    /\ [][handler' = "predict"
            => /\ model_loader' = model_loader
               /\ model_file' = model_file
               /\ prediction_requests' = prediction_requests]_vars

\* C26: two predict calls, in any order, each return the result they would
\* return alone against the same model and telemetry; the loader and the
\* model file are only read, and the one thing every call writes is the
\* counter inference_predictions_total, which no call's answer depends on.
C26_IndependentCalls ==
    /\ []C26_AnswersAsAlone
    /\ [][handler' = "predict"
            => /\ model_loader' = model_loader
               /\ model_file' = model_file
               /\ prediction_requests' # prediction_requests]_vars

\* a second call, scored by the model, after a call in which the model raised
C26_Witness ==
    /\ handler = "predict"
    /\ prediction_requests.success = 2
    /\ prediction_requests.error = 1
    /\ scores.called /\ ~scores.exc
    /\ Len(request.candidate_nodes) = 2
    /\ response = C26_Alone.response

----------------------------------------------------------------------------
(* Claims about the balance calculation *)

\* min(1, current_load + pod_request / capacity)
C27_Projected(load, pod_request, capacity) ==
    Min(Scale, load + (pod_request * Scale) \div capacity)

\* the loads of column col (4: CPU, 5: memory) of the feature vectors, that
\* of candidate i replaced by its projection
C27_Loads(i, col, pod_request, capacity) ==
    [j \in 1..Len(node_features) |->
        IF j = i THEN C27_Projected(node_features[i][col], pod_request, capacity)
        ELSE node_features[j][col]]

\* 0.5 * exp(-25 * std_cpu) + 0.5 * exp(-25 * std_mem), clamped to [0, 1]
C27_Expected(i) ==
    LET node    == request.candidate_nodes[i]
        std_cpu == PopStd(C27_Loads(i, 4, request.pod.cpu_request, node.cpu_capacity))
        std_mem == PopStd(C27_Loads(i, 5, request.pod.memory_request, node.memory_capacity))
    IN  Max(0, Min(Scale, ExpNeg(25 * std_cpu) \div 2 + ExpNeg(25 * std_mem) \div 2))

\* what the heuristic adds to a candidate's score besides the balance term
C27_OtherTerms(i) ==
    LET node == request.candidate_nodes[i]
    IN    Weighted(CpuUsageScore(node_features[i][4]), 15)
        + (IF node.network_latency # None
           THEN Weighted(LatencyScore(node_features[i][3]), 15) ELSE 0)
        + Weighted(Scale - node_features[i][5], 8)
        + Weighted(node_features[i][1], 1)
        + Weighted(node_features[i][2], 1)

\* the balance calculation takes place for candidate i: two candidates or
\* more, told apart by their names, and a node with capacity
C27_Calculated(i) ==
    /\ Len(request.candidate_nodes) >= 2
    /\ \A j \in 1..Len(request.candidate_nodes) :
           request.candidate_nodes[j].name = request.candidate_nodes[i].name => j = i
    /\ request.candidate_nodes[i].cpu_capacity > 0
    /\ request.candidate_nodes[i].memory_capacity > 0

\* C27: in the balance calculation for candidate n, the loads of n are
\* replaced by min(1, load + request / capacity), every other candidate
\* keeps its current load, and the result is 0.5*exp(-25*std_cpu) +
\* 0.5*exp(-25*std_mem) over the population standard deviations, clamped
\* to [0, 1]; this is the balance_score feature and the balance term of
\* the heuristic's score.
C27_BalanceIsProjectedSpread ==
    (handler = "predict" /\ node_features # NoFeatures) =>
        \A i \in 1..Len(request.candidate_nodes) :
            C27_Calculated(i) =>
                /\ node_features[i][7] = C27_Expected(i)
                /\ response.body.model_version = "default-heuristic-v3" =>
                       response.body.node_scores[request.candidate_nodes[i].name] =
                           C27_OtherTerms(i) + Weighted(C27_Expected(i), 60)

\* the projection of the evaluated node was capped at 1.0 and the heuristic
\* answered
C27_Witness ==
    /\ handler = "predict"
    /\ Len(node_features) = 2
    /\ C27_Calculated(1)
    /\ node_features[1][5] + (request.pod.memory_request * Scale)
                                 \div request.candidate_nodes[1].memory_capacity > Scale
    /\ C27_Loads(1, 5, request.pod.memory_request,
                 request.candidate_nodes[1].memory_capacity)[1] = Scale
    /\ node_features[2][5] < Scale
    /\ response.body.model_version = "default-heuristic-v3"
    /\ node_features[1][7] = C27_Expected(1)

\* the load of candidate j that the balance calculation of candidate i read
C28_CpuLoadReadFor(i, j) ==
    _get_node_cpu_load(request.envs[i].telemetry, request.candidate_nodes[j].name)

C28_MemLoadReadFor(i, j) ==
    _get_node_memory_load(request.envs[i].telemetry, request.candidate_nodes[j].name)

\* the balance of candidate i over the loads the feature vectors carry
C28_BalanceOverFeatures(i) ==
    LET node == request.candidate_nodes[i]
        loads(col, pod_request, capacity) ==
            [j \in 1..Len(node_features) |->
                IF request.candidate_nodes[j].name = node.name
                THEN FutureLoad(node_features[i][col], pod_request, capacity)
                ELSE node_features[j][col]]
    IN  BalanceOfStd(PopStd(loads(4, request.pod.cpu_request, node.cpu_capacity)),
                     PopStd(loads(5, request.pod.memory_request, node.memory_capacity)))

\* C28: within one predict call the load used for a node is the same in
\* every candidate's balance calculation and in the node's own cpu_load_avg
\* and memory_load_avg features, even when the telemetry changes or fails
\* during the call: every balance score is computed over the loads the
\* feature vectors carry.
C28_OneSnapshotPerCall ==
    (handler = "predict" /\ Len(node_features) >= 2) =>
        \A i \in 1..Len(node_features) :
            /\ \A j \in 1..Len(node_features) :
                   /\ C28_CpuLoadReadFor(i, j) = node_features[j][4]
                   /\ C28_MemLoadReadFor(i, j) = node_features[j][5]
            /\ node_features[i][7] = C28_BalanceOverFeatures(i)

----------------------------------------------------------------------------
(* Claims about the extender's answer *)

\* the inference server was called and answered 200 with a node_scores map
C29_BackendResponded ==
    /\ handler = "prioritize"
    /\ request.json
    /\ ~_prepare_prediction_request(request.pod, request.nodes, request.prometheus).exc
    /\ request.backend.kind = "ok"

\* C29: when the backend responds successfully, prioritize_nodes returns
\* exactly one hostPriorities entry per input node, in input order, with
\* host equal to the node's name; a node absent from the backend's
\* node_scores receives score 0.
C29_OneEntryPerNode ==
    C29_BackendResponded =>
        LET entries == response.body.hostPriorities
        IN  /\ response.status = 200
            /\ Len(entries) = Len(request.nodes)
            /\ \A i \in 1..Len(request.nodes) :
                   /\ entries[i].host = request.nodes[i].name
                   /\ request.nodes[i].name \notin DOMAIN request.backend.node_scores
                          => entries[i].score = 0

\* two nodes, the first without a score from the backend and the second
\* with one
C29_Witness ==
    /\ C29_BackendResponded
    /\ Len(request.nodes) = 2
    /\ request.nodes[1].name \notin DOMAIN request.backend.node_scores
    /\ request.nodes[2].name \in DOMAIN request.backend.node_scores
    /\ response.body.hostPriorities[1] = [host |-> request.nodes[1].name, score |-> 0]
    /\ response.body.hostPriorities[2].host = request.nodes[2].name
    /\ response.body.hostPriorities[2].score > 0

----------------------------------------------------------------------------
(* Claims about the metrics *)

\* C30: after any sequence of predict calls the success count plus the
\* error count of inference_predictions_total is the number of calls: each
\* call increments exactly one status, and a call that fell back to the
\* heuristic after an exception is not counted as a success.
C30_OneStatusPerCall ==
    [][handler' = "predict"
          => /\ prediction_requests'.success + prediction_requests'.error
                    = prediction_requests.success + prediction_requests.error + 1
             /\ scores'.exc => prediction_requests'.success = prediction_requests.success]_vars

====
